---- MODULE Spec2Model ----
(***************************************************************************)
(* Toxcord audio call engine: the call registry (AvManager), the audio     *)
(* mixer's per-peer sources, and the tox thread's control loop that drains  *)
(* commands, runs the ToxAV callbacks and gates audio capture / playback.   *)
(*                                                                          *)
(* Sources:                                                                 *)
(*   apps/desktop/src-tauri/src/managers/av_manager.rs                      *)
(*   apps/desktop/src-tauri/src/managers/tox_manager.rs (run_tox_thread)    *)
(*   apps/desktop/src-tauri/src/audio/mixer.rs                              *)
(*   crates/toxcord-tox/src/av_types.rs                                     *)
(***************************************************************************)
EXTENDS Integers, Sequences, FiniteSets, TLC

(***************************************************************************)
(* Bounds of the model.                                                     *)
(***************************************************************************)
\* Number of ticks of the control loop that are explored (the wall clock
\* read by chrono::Utc::now() advances by one per tick).
MaxTime == 2

\* Largest number of samples a source accumulates between two level reads
\* in the control-loop specification (level_sample_count is never read by
\* the loop, so it only grows).
MaxRxSamples == 1

\* Friend numbers of the remote peers.
Peers == {0, 1}

\* Ring-buffer capacity, in samples, given to the sources of the mixer
\* specifications (the code's capacity is MAX_BUFFER_SAMPLES; push_samples
\* depends on it only through the comparison with the buffer length).
MixCapacity == 3

\* Samples pushed to one source beyond its capacity in SpecRing.
MaxOverflow == 2

\* Longest frame pushed in one call in the mixer specifications.
MaxChunk == 2

\* Samples pushed to one source in SpecMixer.
MaxMixPushed == 2

\* Largest sample count requested from get_mixed_output in SpecMixer.
MaxPull == 2

\* Samples per frame given to the capture callback in the capture and
\* sending specifications (the code's is TOXAV_SAMPLES_PER_FRAME; the
\* callback depends on it only through the length of a complete frame).
FrameSamples == 2

\* Most complete frames a capture callback finds in its buffer.
MaxBlocks == 2

\* Largest device buffer, in samples, handed to the playback callback.
MaxData == 3

\* Frames waiting on the capture queue beyond which no further capture
\* callback is explored.
MaxQueued == 2

(***************************************************************************)
(* Program constants.                                                       *)
(***************************************************************************)
TOXAV_SAMPLE_RATE == 48000

TOXAV_FRAME_DURATION_MS == 20

TOXAV_SAMPLES_PER_FRAME ==
    (TOXAV_SAMPLE_RATE * TOXAV_FRAME_DURATION_MS) \div 1000

MAX_BUFFER_SAMPLES == TOXAV_SAMPLES_PER_FRAME * 10

VARIABLES
    toxav,          \* Option<ToxAvInstance>: TRUE when the instance exists
    calls,          \* AvManager.calls: HashMap<u32, CallState>
    sources,        \* AudioMixer.sources: HashMap<u32, AudioSource>
    audio_active,   \* run_tox_thread local: audio start has been done
    audio_capture,  \* Option<AudioCapture>: TRUE when a capture handle is held
    audio_playback, \* Option<AudioPlayback>: TRUE when a playback handle is held
    pc,             \* position of the tox thread in its loop
    now,            \* wall clock read by chrono::Utc::now()
    events,         \* events emitted to the frontend by the last step
    reply,          \* Option: reply sent on the last command's reply channel
    muted,          \* AudioMixer.muted
    mixed,          \* Option: Vec<i16> returned by get_mixed_output in the last step
    level,          \* Option: value returned by AudioMixer::get_level in the last step
    hist,           \* per source: samples pushed to / drained from / evicted
                    \* from it since it was created (history)
    removed,        \* Option: the friend number whose source the latest
                    \* remove_source deleted; None once the mixer is cleared
                    \* or the control loop takes another step (history)
    cap,            \* Option: the input stream built by AudioCapture::start
                    \* (the state captured by its callback)
    cap_ran,        \* Option: whether the latest input callback found the
                    \* running flag set (history)
    cap_in,         \* Option: the samples the latest input callback was
                    \* called with and what its resampler returned (history)
    audio_rx,       \* frames sent on audio_tx and not yet received
    play,           \* Option: the output stream built by AudioPlayback::start
    mixer_lock,     \* holder of the Mutex around the AudioMixer
    out,            \* Option: what the last playback callback wrote, whether
                    \* it got the lock and the running flag it read
    sent,           \* frames handed to av.audio_send_frame by the last step
    selected,       \* AppState.selected_mic_index / selected_speaker_index
    av_manager_lock,\* holder of the Mutex around the AvManager
    tox_at          \* Option: the handler the tox thread is inside, and the
                    \* statements of it still to run

vars == <<toxav, calls, sources, audio_active, audio_capture, audio_playback,
          pc, now, events, reply, muted, mixed, level, hist, removed,
          cap, cap_ran, cap_in, audio_rx, play, mixer_lock, out, sent, selected,
          av_manager_lock, tox_at>>

audioVars == <<audio_active, audio_capture, audio_playback>>

\* The mixer's mute flag and the values returned by its last call.
mixerVars == <<muted, mixed, level>>

\* The state of the tox thread's control loop.
loopVars == <<toxav, calls, audioVars, pc, now, events, reply, sent>>

\* The capture and playback streams, the capture queue, the mixer's mutex
\* and the device selection.
ioVars == <<cap, cap_ran, cap_in, audio_rx, play, mixer_lock, out, selected,
            av_manager_lock, tox_at>>

\* The lock of the call registry and the tox thread's place in a handler.
lockVars == <<av_manager_lock, tox_at>>

(***************************************************************************)
(* Option<T> is the empty sequence (None) or a one-element sequence.        *)
(***************************************************************************)
None == << >>

Some(x) == << x >>

(***************************************************************************)
(* HashMap insert / remove on functions with a finite domain.               *)
(***************************************************************************)
MapInsert(m, k, v) == [x \in (DOMAIN m) \cup {k} |-> IF x = k THEN v ELSE m[x]]

MapRemove(m, k) == [x \in (DOMAIN m) \ {k} |-> m[x]]

\* A map whose keys are exactly 1..n is the sequence of its values; Pack(f)
\* is f, written as that sequence when it is one (TLC indexes a sequence
\* directly and searches any other function).
Pack(f) ==
    LET n == Cardinality(DOMAIN f)
    IN  IF n > 0 /\ DOMAIN f = 1..n THEN SubSeq(f, 1, n) ELSE f

EmptyMap == [x \in {} |-> 0]

(***************************************************************************)
(* CallStateFlags (av_types.rs).                                            *)
(***************************************************************************)
CallStateFlags ==
    [error : BOOLEAN, finished : BOOLEAN,
     sending_audio : BOOLEAN, sending_video : BOOLEAN,
     accepting_audio : BOOLEAN, accepting_video : BOOLEAN]

is_active(state) == ~state.finished /\ ~state.error

has_audio(state) == state.sending_audio \/ state.accepting_audio

has_video(state) == state.sending_video \/ state.accepting_video

(***************************************************************************)
(* AvManager (av_manager.rs).                                               *)
(***************************************************************************)
\* start_call that keeps the start time of the record it replaces.
start_call_keeps_started_at(cs, friend_number, with_video) ==
    MapInsert(cs, friend_number,
        [friend_number |-> friend_number,
         state |-> "RingingOutgoing",
         has_audio |-> TRUE,
         has_video |-> with_video,
         is_audio_muted |-> FALSE,
         is_video_muted |-> ~with_video,
         started_at |-> IF friend_number \in DOMAIN cs
                        THEN cs[friend_number].started_at ELSE None])

start_call(cs, friend_number, with_video) ==
    MapInsert(cs, friend_number,
        [friend_number |-> friend_number,
         state |-> "RingingOutgoing",
         has_audio |-> TRUE,
         has_video |-> with_video,
         is_audio_muted |-> FALSE,
         is_video_muted |-> ~with_video,
         started_at |-> None])

\* handle_incoming_call that keeps the record a peer already has.
handle_incoming_call_keeps_existing(cs, friend_number, audio_enabled, video_enabled) ==
    IF friend_number \in DOMAIN cs THEN cs
    ELSE MapInsert(cs, friend_number,
            [friend_number |-> friend_number,
             state |-> "RingingIncoming",
             has_audio |-> audio_enabled,
             has_video |-> video_enabled,
             is_audio_muted |-> FALSE,
             is_video_muted |-> ~video_enabled,
             started_at |-> None])

\* handle_incoming_call that always enables audio.
handle_incoming_call_audio_on(cs, friend_number, audio_enabled, video_enabled) ==
    MapInsert(cs, friend_number,
        [friend_number |-> friend_number,
         state |-> "RingingIncoming",
         has_audio |-> TRUE,
         has_video |-> video_enabled,
         is_audio_muted |-> FALSE,
         is_video_muted |-> ~video_enabled,
         started_at |-> None])

handle_incoming_call(cs, friend_number, audio_enabled, video_enabled) ==
    MapInsert(cs, friend_number,
        [friend_number |-> friend_number,
         state |-> "RingingIncoming",
         has_audio |-> audio_enabled,
         has_video |-> video_enabled,
         is_audio_muted |-> FALSE,
         is_video_muted |-> ~video_enabled,
         started_at |-> None])

\* update_call_state deciding finished before error.
update_call_state_finished_first(cs, friend_number, state, t) ==
    IF friend_number \in DOMAIN cs
    THEN LET call == cs[friend_number]
             c1 == IF state.error \/ state.finished
                   THEN [call EXCEPT !.state =
                            IF state.finished THEN "Ended" ELSE "Error"]
                   ELSE IF is_active(state)
                        THEN IF call.state # "InProgress"
                             THEN [call EXCEPT !.state = "InProgress",
                                               !.started_at = Some(t)]
                             ELSE call
                        ELSE call
         IN  [cs EXCEPT ![friend_number] =
                [c1 EXCEPT !.has_audio = has_audio(state),
                           !.has_video = has_video(state)]]
    ELSE cs

\* update_call_state creating a ringing record for a peer that has none.
update_call_state_creates(cs, friend_number, state, t) ==
    LET cs1 == IF friend_number \in DOMAIN cs THEN cs
               ELSE MapInsert(cs, friend_number,
                        [friend_number |-> friend_number,
                         state |-> "RingingIncoming",
                         has_audio |-> FALSE,
                         has_video |-> FALSE,
                         is_audio_muted |-> FALSE,
                         is_video_muted |-> TRUE,
                         started_at |-> None])
         call == cs1[friend_number]
         c1 == IF state.error \/ state.finished
               THEN [call EXCEPT !.state =
                        IF state.error THEN "Error" ELSE "Ended"]
               ELSE IF is_active(state)
                    THEN IF call.state # "InProgress"
                         THEN [call EXCEPT !.state = "InProgress",
                                           !.started_at = Some(t)]
                         ELSE call
                    ELSE call
    IN  [cs1 EXCEPT ![friend_number] =
            [c1 EXCEPT !.has_audio = has_audio(state),
                       !.has_video = has_video(state)]]

\* update_call_state moving a record to InProgress without a timestamp.
update_call_state_no_timestamp(cs, friend_number, state, t) ==
    IF friend_number \in DOMAIN cs
    THEN LET call == cs[friend_number]
             c1 == IF state.error \/ state.finished
                   THEN [call EXCEPT !.state =
                            IF state.error THEN "Error" ELSE "Ended"]
                   ELSE IF is_active(state)
                        THEN [call EXCEPT !.state = "InProgress"]
                        ELSE call
         IN  [cs EXCEPT ![friend_number] =
                [c1 EXCEPT !.has_audio = has_audio(state),
                           !.has_video = has_video(state)]]
    ELSE cs

\* update_call_state refreshing the capability flags only when the state
\* changes.
update_call_state_refreshes_on_change(cs, friend_number, state, t) ==
    IF friend_number \in DOMAIN cs
    THEN LET call == cs[friend_number]
             c1 == IF state.error \/ state.finished
                   THEN [call EXCEPT !.state =
                            IF state.error THEN "Error" ELSE "Ended"]
                   ELSE IF is_active(state)
                        THEN IF call.state # "InProgress"
                             THEN [call EXCEPT !.state = "InProgress",
                                               !.started_at = Some(t)]
                             ELSE call
                        ELSE call
         IN  [cs EXCEPT ![friend_number] =
                IF c1.state = call.state
                THEN c1
                ELSE [c1 EXCEPT !.has_audio = has_audio(state),
                                !.has_video = has_video(state)]]
    ELSE cs

\* update_call_state stamping started_at on every active update.
update_call_state_restamps(cs, friend_number, state, t) ==
    IF friend_number \in DOMAIN cs
    THEN LET call == cs[friend_number]
             c1 == IF state.error \/ state.finished
                   THEN [call EXCEPT !.state =
                            IF state.error THEN "Error" ELSE "Ended"]
                   ELSE IF is_active(state)
                        THEN [call EXCEPT !.state = "InProgress",
                                          !.started_at = Some(t)]
                        ELSE call
         IN  [cs EXCEPT ![friend_number] =
                [c1 EXCEPT !.has_audio = has_audio(state),
                           !.has_video = has_video(state)]]
    ELSE cs

update_call_state(cs, friend_number, state, t) ==
    IF friend_number \in DOMAIN cs
    THEN LET call == cs[friend_number]
             c1 == IF state.error \/ state.finished
                   THEN [call EXCEPT !.state =
                            IF state.error THEN "Error" ELSE "Ended"]
                   ELSE IF is_active(state)
                        THEN IF call.state # "InProgress"
                             THEN [call EXCEPT !.state = "InProgress",
                                               !.started_at = Some(t)]
                             ELSE call
                        ELSE call
         IN  [cs EXCEPT ![friend_number] =
                [c1 EXCEPT !.has_audio = has_audio(state),
                           !.has_video = has_video(state)]]
    ELSE cs

end_call(cs, friend_number) == MapRemove(cs, friend_number)

\* AvManager::set_audio_muted: the per-peer mute flag of the record.
set_audio_muted(cs, friend_number, audio_muted) ==
    IF friend_number \in DOMAIN cs
    THEN [cs EXCEPT ![friend_number].is_audio_muted = audio_muted]
    ELSE cs

get_call(cs, friend_number) ==
    IF friend_number \in DOMAIN cs THEN Some(cs[friend_number]) ELSE None

(***************************************************************************)
(* AudioSource / AudioMixer (mixer.rs).  level_accumulator is kept as the   *)
(* integer sum of |sample| (the code divides each term by 32768.0).         *)
(***************************************************************************)
Abs(x) == IF x < 0 THEN -x ELSE x

AudioSource_new ==
    [buffer |-> << >>, level_accumulator |-> 0, level_sample_count |-> 0]

\* push_samples that drops the incoming sample when the buffer is full.
RECURSIVE push_samples_drops_newest(_, _, _)
push_samples_drops_newest(src, samples, capacity) ==
    IF samples = << >> THEN src
    ELSE push_samples_drops_newest(
            [buffer |-> IF Len(src.buffer) >= capacity THEN src.buffer
                        ELSE Append(src.buffer, Head(samples)),
             level_accumulator |-> src.level_accumulator + Abs(Head(samples)),
             level_sample_count |-> src.level_sample_count + 1],
            Tail(samples), capacity)

\* push_samples that never evicts.
RECURSIVE push_samples_unbounded(_, _, _)
push_samples_unbounded(src, samples, capacity) ==
    IF samples = << >> THEN src
    ELSE push_samples_unbounded(
            [buffer |-> Append(src.buffer, Head(samples)),
             level_accumulator |-> src.level_accumulator + Abs(Head(samples)),
             level_sample_count |-> src.level_sample_count + 1],
            Tail(samples), capacity)

\* capacity stands for MAX_BUFFER_SAMPLES.
RECURSIVE push_samples(_, _, _)
push_samples(src, samples, capacity) ==
    IF samples = << >> THEN src
    ELSE LET sample == Head(samples)
             buf == IF Len(src.buffer) >= capacity
                    THEN Tail(src.buffer) ELSE src.buffer
         IN  push_samples(
                [buffer |-> Append(buf, sample),
                 level_accumulator |-> src.level_accumulator + Abs(sample),
                 level_sample_count |-> src.level_sample_count + 1],
                Tail(samples), capacity)

\* push_frame that pushes the samples to every source.
push_frame_to_all(srcs, friend_number, pcm, capacity) ==
    LET source == IF friend_number \in DOMAIN srcs
                  THEN srcs[friend_number] ELSE AudioSource_new
    IN  [p \in DOMAIN srcs \cup {friend_number} |->
            push_samples(IF p = friend_number THEN source ELSE srcs[p],
                         pcm, capacity)]

push_frame(srcs, friend_number, pcm, capacity) ==
    LET source == IF friend_number \in DOMAIN srcs
                  THEN srcs[friend_number] ELSE AudioSource_new
    IN  MapInsert(srcs, friend_number, push_samples(source, pcm, capacity))

\* remove_source that leaves the source in place.
remove_source_keeps(srcs, friend_number) == srcs

\* remove_source that empties the source's buffer and keeps the source.
remove_source_empties(srcs, friend_number) ==
    IF friend_number \in DOMAIN srcs
    THEN [srcs EXCEPT ![friend_number].buffer = << >>]
    ELSE srcs

remove_source(srcs, friend_number) == MapRemove(srcs, friend_number)

\* clear that leaves the sources in place.
clear_keeps(srcs) == srcs

clear(srcs) == EmptyMap

Min(a, b) == IF a < b THEN a ELSE b

Max(a, b) == IF a < b THEN b ELSE a

\* vec![0i16; n]
Zeros(n) == [i \in 1..n |-> 0]

\* get_samples that leaves the returned samples in the buffer.
get_samples_keeps(src, count) ==
    LET available == Min(Len(src.buffer), count)
    IN  [result |-> SubSeq(src.buffer, 1, available) \o Zeros(count - available),
         source |-> src]

\* AudioSource::get_samples: the Vec returned and the source afterwards.
get_samples(src, count) ==
    LET available == Min(Len(src.buffer), count)
    IN  [result |-> SubSeq(src.buffer, 1, available) \o Zeros(count - available),
         source |-> [src EXCEPT !.buffer =
                        SubSeq(src.buffer, available + 1, Len(src.buffer))]]

\* A level is the rational num / den (the code's f32 value, unrounded).
LevelZero == [num |-> 0, den |-> 1]

\* get_level that keeps the accumulator and the counter.
source_get_level_no_reset(src) ==
    IF src.level_sample_count = 0
    THEN [level |-> LevelZero, source |-> src]
    ELSE LET den == 32768 * src.level_sample_count
             scaled == 3 * src.level_accumulator
         IN  [level |-> [num |-> Min(scaled, den), den |-> den],
              source |-> src]

\* AudioSource::get_level: the level returned and the source afterwards.
\* level_accumulator / count * 3.0 is (3 * sum|s|) / (32768 * count), and
\* .min(1.0) caps the numerator at the denominator.
source_get_level(src) ==
    IF src.level_sample_count = 0
    THEN [level |-> LevelZero, source |-> src]
    ELSE LET den == 32768 * src.level_sample_count
             scaled == 3 * src.level_accumulator
         IN  [level |-> [num |-> Min(scaled, den), den |-> den],
              source |-> [src EXCEPT !.level_accumulator = 0,
                                     !.level_sample_count = 0]]

\* AudioMixer::get_level: the level returned and the sources afterwards.
get_level(srcs, friend_number) ==
    IF friend_number \in DOMAIN srcs
    THEN LET r == source_get_level(srcs[friend_number])
         IN  [level |-> r.level,
              sources |-> [srcs EXCEPT ![friend_number] = r.source]]
    ELSE [level |-> LevelZero, sources |-> srcs]

\* i32::MAX and i32::MIN.
I32_MAX == 2147483647

I32_MIN == -I32_MAX - 1

\* a + b on i32 in a release build: the sum wraps modulo 2^32 (a debug build
\* panics where this wraps).  Written so that no intermediate value leaves
\* the 32-bit range.
WrappingAdd(a, b) ==
    IF a >= 0 /\ b >= 0 /\ a > I32_MAX - b
    THEN ((a - I32_MAX) + (b - I32_MAX)) - 2
    ELSE IF a < 0 /\ b < 0 /\ a < I32_MIN - b
    THEN (a - I32_MIN) + (b - I32_MIN)
    ELSE a + b

\* Rust's integer division truncates toward zero (d > 0); \div rounds down.
TruncDiv(x, d) ==
    IF x >= 0 \/ x % d = 0 THEN x \div d ELSE (x \div d) + 1

Clamp(x, lo, hi) == IF x < lo THEN lo ELSE IF x > hi THEN hi ELSE x

\* The largest key of the non-empty set S of friend numbers, found one bit
\* (of weight w) at a time: k is the part of the key settled so far.
RECURSIVE MaxKey(_, _, _)
MaxKey(S, k, w) ==
    IF w = 0 THEN k
    ELSE IF \E p \in S : p >= k + w
         THEN MaxKey(S, k + w, w \div 2)
         ELSE MaxKey(S, k, w \div 2)

\* mixed[i] after the accumulation loop: the wrapping i32 sum, over every
\* source with a key in lo..hi, of the i-th of the sample_count samples
\* that get_samples returns for it (all_samples[..][i]).  Wrapping addition
\* is associative and commutative, so the map's iteration order does not
\* matter; the sum is taken by halving the key range.
RECURSIVE SumI32(_, _, _, _, _)
SumI32(srcs, sample_count, i, lo, hi) ==
    IF lo = hi
    THEN IF lo \in DOMAIN srcs
         THEN get_samples(srcs[lo], sample_count).result[i] ELSE 0
    ELSE LET mid == lo + (hi - lo) \div 2
         IN  WrappingAdd(SumI32(srcs, sample_count, i, lo, mid),
                         SumI32(srcs, sample_count, i, mid + 1, hi))

\* get_mixed_output that mixes the sources of a muted mixer too.
get_mixed_output_ignores_mute(srcs, is_muted, sample_count) ==
    IF DOMAIN srcs = {}
    THEN [output |-> Zeros(sample_count), sources |-> srcs]
    ELSE LET last == MaxKey(DOMAIN srcs, 0, (I32_MAX \div 2) + 1)
         IN  [output |-> [i \in 1..sample_count |->
                            Clamp(TruncDiv(SumI32(srcs, sample_count, i, 0, last),
                                           Cardinality(DOMAIN srcs)),
                                  -32768, 32767)],
              sources |-> [p \in DOMAIN srcs |->
                             get_samples(srcs[p], sample_count).source]]

\* get_mixed_output that divides by the number of sources that hold samples.
get_mixed_output_counts_buffered(srcs, is_muted, sample_count) ==
    IF is_muted \/ DOMAIN srcs = {}
    THEN [output |-> Zeros(sample_count), sources |-> srcs]
    ELSE LET buffered == { p \in DOMAIN srcs : srcs[p].buffer # << >> }
             last == MaxKey(DOMAIN srcs, 0, (I32_MAX \div 2) + 1)
             divisor == Max(Cardinality(buffered), 1)
         IN  [output |-> [i \in 1..sample_count |->
                            Clamp(TruncDiv(SumI32(srcs, sample_count, i, 0, last),
                                           divisor),
                                  -32768, 32767)],
              sources |-> [p \in DOMAIN srcs |->
                             get_samples(srcs[p], sample_count).source]]

\* get_mixed_output that drains the buffers of a muted mixer.
get_mixed_output_drains_muted(srcs, is_muted, sample_count) ==
    IF is_muted
    THEN [output |-> Zeros(sample_count),
          sources |-> [p \in DOMAIN srcs |->
                         get_samples(srcs[p], sample_count).source]]
    ELSE get_mixed_output_ignores_mute(srcs, is_muted, sample_count)

\* AudioMixer::get_mixed_output: the Vec returned and the sources afterwards.
get_mixed_output(srcs, is_muted, sample_count) ==
    IF is_muted
    THEN [output |-> Zeros(sample_count), sources |-> srcs]
    ELSE IF DOMAIN srcs = {}
    THEN [output |-> Zeros(sample_count), sources |-> srcs]
    ELSE LET source_count == Cardinality(DOMAIN srcs)
             last == MaxKey(DOMAIN srcs, 0, (I32_MAX \div 2) + 1)
             divisor == Max(source_count, 1)
         IN  [output |-> [i \in 1..sample_count |->
                            Clamp(TruncDiv(SumI32(srcs, sample_count, i, 0, last),
                                           divisor),
                                  -32768, 32767)],
              sources |-> [p \in DOMAIN srcs |->
                             get_samples(srcs[p], sample_count).source]]

set_muted(m) == m

(***************************************************************************)
(* History of each source, kept beside the mixer: the samples pushed to it, *)
(* the samples drained from it by get_samples and the number of samples     *)
(* evicted from it, all since the source was created.                       *)
(***************************************************************************)
HistNew == [pushed |-> << >>, pulled |-> << >>, evicted |-> 0]

HistPush(h, srcs, friend_number, pcm, capacity) ==
    LET old == IF friend_number \in DOMAIN h THEN h[friend_number] ELSE HistNew
        len == IF friend_number \in DOMAIN srcs
               THEN Len(srcs[friend_number].buffer) ELSE 0
    IN  MapInsert(h, friend_number,
            [old EXCEPT !.pushed = @ \o pcm,
                        !.evicted = @ + Max(0, len + Len(pcm) - capacity)])

HistPull(h, srcs, is_muted, sample_count) ==
    IF is_muted THEN h
    ELSE [p \in DOMAIN h |->
            LET buffer == srcs[p].buffer
            IN  [h[p] EXCEPT !.pulled =
                    @ \o SubSeq(buffer, 1, Min(Len(buffer), sample_count))]]

(***************************************************************************)
(* AudioCapture (capture.rs).  An f32 sample is kept as a whole number of   *)
(* 1/65536ths: the samples of an i16 device (s / 32768.0), and the average  *)
(* of two of them, are exact both in f32 and in these units.                *)
(***************************************************************************)
F32_ONE == 65536

\* cpal::Sample::from_sample::<i16 -> f32>: s / 32768.0.
from_sample(sample) == sample * (F32_ONE \div 32768)

\* (s * 32767.0).clamp(-32768.0, 32767.0) as i16: the cast truncates toward
\* zero (the clamp bounds are whole numbers, so clamping after the
\* truncation gives the same i16).
to_pcm(s) == Clamp(TruncDiv(s * 32767, F32_ONE), -32768, 32767)

\* tokio::sync::mpsc::unbounded_channel: the frames sent and not yet
\* received, and whether the receiver still exists.
Channel_new == [open |-> TRUE, frames |-> << >>]

\* Result<Vec<f32>, ResampleError> of Resampler::process.
Err == [ok |-> FALSE, output |-> << >>]

Ok(output) == [ok |-> TRUE, output |-> output]

\* A stream configuration reported by a device (cpal::StreamConfig).
StreamConfig(channels, sample_rate) ==
    [channels |-> channels, sample_rate |-> sample_rate]

\* AudioCapture::start_with_device, when it succeeds: the state moved into
\* the input callback.  resampler is TRUE when an FftFixedInOut was created.
AudioCapture_start_with_device(device_id, config) ==
    [device_id |-> device_id,
     input_channels |-> config.channels,
     input_sample_rate |-> config.sample_rate,
     running |-> TRUE,
     resampler |-> config.sample_rate # TOXAV_SAMPLE_RATE,
     sample_buffer |-> << >>]

\* AudioCapture::start
AudioCapture_start(config) == AudioCapture_start_with_device(None, config)

\* AudioCapture::stop
AudioCapture_stop(stream) == [stream EXCEPT !.running = FALSE]

\* The sum of q[lo..hi].
RECURSIVE SumRange(_, _, _)
SumRange(q, lo, hi) ==
    IF lo > hi THEN 0 ELSE q[lo] + SumRange(q, lo + 1, hi)

\* frame_data.chunks(input_channels).map(|c| c.iter().sum() / input_channels)
mix_down(frame_data, input_channels) ==
    IF input_channels > 1
    THEN [i \in 1..(Len(frame_data) \div input_channels) |->
            TruncDiv(SumRange(frame_data, (i - 1) * input_channels + 1,
                              i * input_channels),
                     input_channels)]
    ELSE frame_data

\* The frame loop returning from the callback at a resampler error.
RECURSIVE process_frames_returns_on_error(_, _, _, _)
process_frames_returns_on_error(stream, rx, results, samples_per_frame) ==
    LET target_samples == samples_per_frame * stream.input_channels
        buffer == stream.sample_buffer
    IN  IF Len(buffer) < target_samples
        THEN [stream |-> stream, rx |-> rx]
        ELSE LET frame_data == SubSeq(buffer, 1, target_samples)
                 drained == [stream EXCEPT !.sample_buffer =
                               SubSeq(buffer, target_samples + 1, Len(buffer))]
                 mono == mix_down(frame_data, stream.input_channels)
                 dropped == stream.resampler /\ ~Head(results).ok
                 resampled == IF stream.resampler
                              THEN Head(results).output ELSE mono
                 pcm == [i \in 1..Len(resampled) |-> to_pcm(resampled[i])]
                 rest == IF stream.resampler THEN Tail(results) ELSE results
             IN  IF dropped \/ ~rx.open
                 THEN [stream |-> drained, rx |-> rx]
                 ELSE process_frames_returns_on_error(drained,
                         [rx EXCEPT !.frames = Append(@, pcm)],
                         rest, samples_per_frame)

\* The frame loop clearing the running flag when the send fails.
RECURSIVE process_frames_stops_on_send_failure(_, _, _, _)
process_frames_stops_on_send_failure(stream, rx, results, samples_per_frame) ==
    LET target_samples == samples_per_frame * stream.input_channels
        buffer == stream.sample_buffer
    IN  IF Len(buffer) < target_samples
        THEN [stream |-> stream, rx |-> rx]
        ELSE LET frame_data == SubSeq(buffer, 1, target_samples)
                 drained == [stream EXCEPT !.sample_buffer =
                               SubSeq(buffer, target_samples + 1, Len(buffer))]
                 mono == mix_down(frame_data, stream.input_channels)
                 dropped == stream.resampler /\ ~Head(results).ok
                 resampled == IF stream.resampler
                              THEN Head(results).output ELSE mono
                 pcm == [i \in 1..Len(resampled) |-> to_pcm(resampled[i])]
                 rest == IF stream.resampler THEN Tail(results) ELSE results
             IN  IF dropped
                 THEN process_frames_stops_on_send_failure(drained, rx, rest,
                                                           samples_per_frame)
                 ELSE IF ~rx.open
                 THEN [stream |-> [drained EXCEPT !.running = FALSE],
                       rx |-> rx]
                 ELSE process_frames_stops_on_send_failure(drained,
                         [rx EXCEPT !.frames = Append(@, pcm)],
                         rest, samples_per_frame)

\* The `while buffer.len() >= target_samples` loop of the input callback.
\* results holds what resampler.process returns for the successive blocks
\* and samples_per_frame stands for TOXAV_SAMPLES_PER_FRAME.
RECURSIVE process_frames(_, _, _, _)
process_frames(stream, rx, results, samples_per_frame) ==
    LET target_samples == samples_per_frame * stream.input_channels
        buffer == stream.sample_buffer
    IN  IF Len(buffer) < target_samples
        THEN [stream |-> stream, rx |-> rx]
        ELSE LET frame_data == SubSeq(buffer, 1, target_samples)
                 drained == [stream EXCEPT !.sample_buffer =
                               SubSeq(buffer, target_samples + 1, Len(buffer))]
                 mono == mix_down(frame_data, stream.input_channels)
                 dropped == stream.resampler /\ ~Head(results).ok
                 resampled == IF stream.resampler
                              THEN Head(results).output ELSE mono
                 pcm == [i \in 1..Len(resampled) |-> to_pcm(resampled[i])]
                 rest == IF stream.resampler THEN Tail(results) ELSE results
             IN  IF dropped
                 THEN process_frames(drained, rx, rest, samples_per_frame)
                 ELSE IF ~rx.open
                 THEN [stream |-> drained, rx |-> rx]
                 ELSE process_frames(drained,
                         [rx EXCEPT !.frames = Append(@, pcm)],
                         rest, samples_per_frame)

\* The input callback without the check of the running flag.
input_callback_ignores_running(stream, rx, data, results, samples_per_frame) ==
    process_frames(
        [stream EXCEPT !.sample_buffer =
            @ \o [i \in 1..Len(data) |-> from_sample(data[i])]],
        rx, results, samples_per_frame)

\* The input callback built by build_stream, called with the samples data.
input_callback(stream, rx, data, results, samples_per_frame) ==
    IF ~stream.running
    THEN [stream |-> stream, rx |-> rx]
    ELSE process_frames(
            [stream EXCEPT !.sample_buffer =
                @ \o [i \in 1..Len(data) |-> from_sample(data[i])]],
            rx, results, samples_per_frame)

(***************************************************************************)
(* AudioPlayback (playback.rs).                                             *)
(***************************************************************************)
\* AudioPlayback::start_with_device, when it succeeds: the state moved into
\* the output callback.
AudioPlayback_start_with_device(device_id, config) ==
    [device_id |-> device_id,
     output_channels |-> config.channels,
     running |-> TRUE]

\* AudioPlayback::start
AudioPlayback_start(config) == AudioPlayback_start_with_device(None, config)

\* AudioPlayback::stop
AudioPlayback_stop(stream) == [stream EXCEPT !.running = FALSE]

\* The device buffer of data_len samples filled with T::EQUILIBRIUM.
Silence(data_len) == [j \in 1..data_len |-> 0]

\* The device buffer after the output callback's conversion loop: every
\* sample of a chunk of output_channels is the mono sample / 32768.0, or 0.0
\* once the mixed samples run out.
write_output(mixed_samples, data_len, output_channels) ==
    [j \in 1..data_len |->
        LET sample_idx == ((j - 1) \div output_channels) + 1
        IN  IF sample_idx <= Len(mixed_samples)
            THEN from_sample(mixed_samples[sample_idx]) ELSE 0]

\* The output callback without the check of the running flag.
output_callback_ignores_running(stream, lock_free, srcs, is_muted, data_len) ==
    LET samples_needed == data_len \div stream.output_channels
    IN  IF lock_free
        THEN LET r == get_mixed_output(srcs, is_muted, samples_needed)
             IN  [data |-> write_output(r.output, data_len,
                                        stream.output_channels),
                  sources |-> r.sources, mixed |-> Some(r.output),
                  lock_acquired |-> TRUE]
        ELSE [data |-> write_output(Zeros(samples_needed), data_len,
                                    stream.output_channels),
              sources |-> srcs, mixed |-> None,
              lock_acquired |-> FALSE]

\* The output callback waiting for the mixer's lock instead of trying it.
output_callback_waits(stream, lock_free, srcs, is_muted, data_len) ==
    IF ~stream.running
    THEN [data |-> Silence(data_len), sources |-> srcs, mixed |-> None,
          lock_acquired |-> FALSE]
    ELSE LET samples_needed == data_len \div stream.output_channels
             r == get_mixed_output(srcs, is_muted, samples_needed)
         IN  [data |-> write_output(r.output, data_len,
                                    stream.output_channels),
              sources |-> r.sources, mixed |-> Some(r.output),
              lock_acquired |-> TRUE]

\* The output callback built by build_stream, called with a device buffer
\* of data_len samples; lock_free is whether mixer.try_lock() succeeds.
\* Gives the buffer as written, the mixer's sources afterwards, the Vec
\* get_mixed_output returned (if called) and lock_acquired.
output_callback(stream, lock_free, srcs, is_muted, data_len) ==
    IF ~stream.running
    THEN [data |-> Silence(data_len), sources |-> srcs, mixed |-> None,
          lock_acquired |-> FALSE]
    ELSE LET samples_needed == data_len \div stream.output_channels
         IN  IF lock_free
             THEN LET r == get_mixed_output(srcs, is_muted, samples_needed)
                  IN  [data |-> write_output(r.output, data_len,
                                             stream.output_channels),
                       sources |-> r.sources, mixed |-> Some(r.output),
                       lock_acquired |-> TRUE]
             ELSE [data |-> write_output(Zeros(samples_needed), data_len,
                                         stream.output_channels),
                   sources |-> srcs, mixed |-> None,
                   lock_acquired |-> FALSE]

(***************************************************************************)
(* Device selection (commands/calls.rs).  A String is the sequence of its   *)
(* characters.                                                              *)
(***************************************************************************)
Digits == << "0", "1", "2", "3", "4", "5", "6", "7", "8", "9" >>

IsDigit(c) == \E i \in 1..Len(Digits) : Digits[i] = c

DigitValue(c) == (CHOOSE i \in 1..Len(Digits) : Digits[i] = c) - 1

\* The number written by the digits q, most significant first.
RECURSIVE Decimal(_)
Decimal(q) ==
    IF q = << >> THEN 0
    ELSE Decimal(SubSeq(q, 1, Len(q) - 1)) * 10 + DigitValue(q[Len(q)])

\* device_id.parse::<u32>().ok(), for strings short enough not to overflow:
\* an optional "+" followed by at least one digit and nothing else.
parse_u32(device_id) ==
    LET digits == IF device_id # << >> /\ device_id[1] = "+"
                  THEN Tail(device_id) ELSE device_id
    IN  IF digits # << >> /\ \A i \in 1..Len(digits) : IsDigit(digits[i])
        THEN Some(Decimal(digits))
        ELSE None

(***************************************************************************)
(* Events emitted on "toxav://event" (ToxAvEvent, av_manager.rs).           *)
(***************************************************************************)
IncomingCallEvent(friend_number, audio_enabled, video_enabled) ==
    [type |-> "IncomingCall", friend_number |-> friend_number,
     audio_enabled |-> audio_enabled, video_enabled |-> video_enabled]

CallStateChangeEvent(friend_number, state_str, sa, sv, aa, av) ==
    [type |-> "CallStateChange", friend_number |-> friend_number,
     state |-> state_str, sending_audio |-> sa, sending_video |-> sv,
     accepting_audio |-> aa, accepting_video |-> av]

CallEndedEvent(friend_number, reason) ==
    [type |-> "CallEnded", friend_number |-> friend_number, reason |-> reason]

\* Reply sent on a command's reply channel: a Result<(), String> (ok) or,
\* for AvGetCallState, the Option<CallState> that was read.
Reply(cmd, friend_number, ok, state) ==
    Some([cmd |-> cmd, friend_number |-> friend_number, ok |-> ok,
          state |-> state])

\* The friend number whose source was deleted last, after the call
\* remove_source(friend_number) on the sources srcs.
Removed(r, srcs, friend_number) ==
    IF friend_number \in DOMAIN srcs THEN Some(friend_number) ELSE r

\* default_input_config() / the output configuration of the host's default
\* devices in the control-loop specifications.
HostInputConfig == StreamConfig(1, TOXAV_SAMPLE_RATE)

HostOutputConfig == StreamConfig(2, TOXAV_SAMPLE_RATE)

(***************************************************************************)
(* Initial state: run_tox_thread before its main loop.                      *)
(***************************************************************************)
Init ==
    /\ toxav \in BOOLEAN
    /\ calls = EmptyMap
    /\ sources = EmptyMap
    /\ audio_active = FALSE
    /\ audio_capture = FALSE
    /\ audio_playback = FALSE
    /\ pc = "cmds"
    /\ now = 0
    /\ events = << >>
    /\ reply = None
    /\ muted = FALSE
    /\ mixed = None
    /\ level = None
    /\ hist = EmptyMap
    /\ removed = None
    /\ cap = None
    /\ audio_rx = Channel_new
    /\ play = None
    /\ mixer_lock = "none"
    /\ out = None
    /\ sent = << >>
    /\ cap_ran = None
    /\ cap_in = None
    /\ selected = [mic |-> None, speaker |-> None]
    /\ av_manager_lock = "none"
    /\ tox_at = None

(***************************************************************************)
(* Command handlers (tox_manager.rs, the `while let Ok(cmd)` drain loop).   *)
(* accepted is the Result of the ToxAV call made by the handler.            *)
(***************************************************************************)
AvCall(friend_number, with_video, accepted) ==
    /\ pc = "cmds"
    /\ IF toxav /\ accepted
       THEN /\ calls' = start_call(calls, friend_number, with_video)
            /\ reply' = Reply("AvCall", friend_number, TRUE, None)
       ELSE /\ calls' = calls
            /\ reply' = Reply("AvCall", friend_number, FALSE, None)
    /\ events' = << >>
    /\ sent' = << >>
    /\ removed' = None
    /\ UNCHANGED <<toxav, sources, audioVars, pc, now, mixerVars, hist, ioVars>>

AvAnswer(friend_number, with_video, accepted) ==
    /\ pc = "cmds"
    /\ IF toxav /\ accepted
       THEN /\ calls' = update_call_state(calls, friend_number,
                            [error |-> FALSE, finished |-> FALSE,
                             sending_audio |-> TRUE,
                             sending_video |-> with_video,
                             accepting_audio |-> TRUE,
                             accepting_video |-> with_video], now)
            /\ events' = << CallStateChangeEvent(friend_number, "in_progress",
                                TRUE, with_video, TRUE, with_video) >>
            /\ reply' = Reply("AvAnswer", friend_number, TRUE, None)
       ELSE /\ calls' = calls
            /\ events' = << >>
            /\ reply' = Reply("AvAnswer", friend_number, FALSE, None)
    /\ sent' = << >>
    /\ removed' = None
    /\ UNCHANGED <<toxav, sources, audioVars, pc, now, mixerVars, hist, ioVars>>

AvHangup(friend_number, accepted) ==
    /\ pc = "cmds"
    /\ IF toxav /\ accepted
       THEN /\ calls' = end_call(calls, friend_number)
            /\ sources' = remove_source(sources, friend_number)
            /\ hist' = MapRemove(hist, friend_number)
            /\ removed' = Removed(None, sources, friend_number)
            /\ reply' = Reply("AvHangup", friend_number, TRUE, None)
       ELSE /\ calls' = calls
            /\ sources' = sources
            /\ hist' = hist
            /\ removed' = None
            /\ reply' = Reply("AvHangup", friend_number, FALSE, None)
    /\ events' = << >>
    /\ sent' = << >>
    /\ UNCHANGED <<toxav, audioVars, pc, now, mixerVars, ioVars>>

AvMuteAudio(friend_number, accepted) ==
    /\ pc = "cmds"
    /\ IF toxav /\ accepted
       THEN /\ calls' = set_audio_muted(calls, friend_number, TRUE)
            /\ reply' = Reply("AvMuteAudio", friend_number, TRUE, None)
       ELSE /\ calls' = calls
            /\ reply' = Reply("AvMuteAudio", friend_number, FALSE, None)
    /\ events' = << >>
    /\ sent' = << >>
    /\ removed' = None
    /\ UNCHANGED <<toxav, sources, audioVars, pc, now, mixerVars, hist, ioVars>>

AvUnmuteAudio(friend_number, accepted) ==
    /\ pc = "cmds"
    /\ IF toxav /\ accepted
       THEN /\ calls' = set_audio_muted(calls, friend_number, FALSE)
            /\ reply' = Reply("AvUnmuteAudio", friend_number, TRUE, None)
       ELSE /\ calls' = calls
            /\ reply' = Reply("AvUnmuteAudio", friend_number, FALSE, None)
    /\ events' = << >>
    /\ sent' = << >>
    /\ removed' = None
    /\ UNCHANGED <<toxav, sources, audioVars, pc, now, mixerVars, hist, ioVars>>

AvGetCallState(friend_number) ==
    /\ pc = "cmds"
    /\ reply' = Reply("AvGetCallState", friend_number, TRUE,
                      get_call(calls, friend_number))
    /\ events' = << >>
    /\ sent' = << >>
    /\ removed' = None
    /\ UNCHANGED <<toxav, calls, sources, audioVars, pc, now, mixerVars, hist, ioVars>>

\* The command queue is empty: the loop goes on to tox.iterate / av.iterate.
CommandsDrained ==
    /\ pc = "cmds"
    /\ pc' = "iterate"
    /\ events' = << >>
    /\ reply' = None
    /\ sent' = << >>
    /\ removed' = None
    /\ UNCHANGED <<toxav, calls, sources, audioVars, now, mixerVars, hist, ioVars>>

(***************************************************************************)
(* ToxAV callbacks (TauriAvEventHandler), run from av.iterate() on the tox  *)
(* thread.  They exist only when the ToxAV instance was created.            *)
(***************************************************************************)
on_call(friend_number, audio_enabled, video_enabled) ==
    /\ pc = "iterate"
    /\ toxav
    /\ calls' = handle_incoming_call(calls, friend_number,
                                     audio_enabled, video_enabled)
    /\ events' = << IncomingCallEvent(friend_number,
                                      audio_enabled, video_enabled) >>
    /\ sent' = << >>
    /\ removed' = None
    /\ UNCHANGED <<toxav, sources, audioVars, pc, now, reply, mixerVars, hist, ioVars>>

state_str(state) ==
    IF state.error THEN "error"
    ELSE IF state.finished THEN "ended"
    ELSE IF is_active(state) THEN "in_progress"
    ELSE "unknown"

on_call_state(friend_number, state) ==
    /\ pc = "iterate"
    /\ toxav
    /\ calls' = update_call_state(calls, friend_number, state, now)
    /\ IF state.finished \/ state.error
       THEN /\ events' =
                << CallStateChangeEvent(friend_number, state_str(state),
                       state.sending_audio, state.sending_video,
                       state.accepting_audio, state.accepting_video),
                   CallEndedEvent(friend_number,
                       IF state.error THEN "error" ELSE "hangup") >>
            /\ sources' = remove_source(sources, friend_number)
            /\ hist' = MapRemove(hist, friend_number)
            /\ removed' = Removed(None, sources, friend_number)
       ELSE /\ events' =
                << CallStateChangeEvent(friend_number, state_str(state),
                       state.sending_audio, state.sending_video,
                       state.accepting_audio, state.accepting_video) >>
            /\ sources' = sources
            /\ hist' = hist
            /\ removed' = None
    /\ sent' = << >>
    /\ UNCHANGED <<toxav, audioVars, pc, now, reply, mixerVars, ioVars>>

\* Frames the transport delivers in the control-loop specification.
RxFrames == { << 1000 >> }

on_audio_receive_frame(friend_number, pcm) ==
    /\ pc = "iterate"
    /\ toxav
    /\ (IF friend_number \in DOMAIN sources
        THEN sources[friend_number].level_sample_count ELSE 0) + Len(pcm)
            <= MaxRxSamples
    /\ sources' = push_frame(sources, friend_number, pcm, MAX_BUFFER_SAMPLES)
    /\ hist' = HistPush(hist, sources, friend_number, pcm, MAX_BUFFER_SAMPLES)
    /\ events' = << >>
    /\ sent' = << >>
    /\ removed' = None
    /\ UNCHANGED <<toxav, calls, audioVars, pc, now, reply, mixerVars,
                   ioVars>>

(***************************************************************************)
(* The rest of the tick after av.iterate(): audio start / stop gating       *)
(* (tox_manager.rs 1542-1597).  captureOk / playbackOk are the results of   *)
(* AudioCapture::start and AudioPlayback::start.                            *)
(***************************************************************************)
\* has_active_call counting a ringing or ended record as active.
has_active_call_any_record(cs) == DOMAIN cs # {}

\* has_active_call requiring every record to be InProgress.
has_active_call_all_records(cs) ==
    /\ DOMAIN cs # {}
    /\ \A p \in DOMAIN cs : cs[p].state = "InProgress"

has_active_call(cs) == \E p \in DOMAIN cs : cs[p].state = "InProgress"

\* AudioGating that ends the active calls when a start fails.
AudioGating_ends_call_on_failure(captureOk, playbackOk) ==
    /\ pc = "iterate"
    /\ LET active == has_active_call(calls)
       IN  IF active /\ ~audio_active
           THEN /\ audio_capture' = captureOk
                /\ cap' = IF captureOk
                          THEN Some(AudioCapture_start(HostInputConfig))
                          ELSE None
                /\ audio_playback' = playbackOk
                /\ play' = IF playbackOk
                           THEN Some(AudioPlayback_start(HostOutputConfig))
                           ELSE None
                /\ audio_active' = TRUE
                /\ sources' = sources
                /\ hist' = hist
                /\ calls' = IF captureOk /\ playbackOk THEN calls
                            ELSE [p \in DOMAIN calls |->
                                    IF calls[p].state = "InProgress"
                                    THEN [calls[p] EXCEPT !.state = "Error"]
                                    ELSE calls[p]]
           ELSE IF ~active /\ audio_active
           THEN /\ audio_capture' = FALSE
                /\ cap' = None
                /\ audio_playback' = FALSE
                /\ play' = None
                /\ sources' = clear(sources)
                /\ hist' = EmptyMap
                /\ audio_active' = FALSE
                /\ calls' = calls
           ELSE UNCHANGED <<audioVars, cap, play, sources, hist, calls>>
    /\ pc' = "sleep"
    /\ events' = << >>
    /\ sent' = << >>
    /\ removed' = None
    /\ UNCHANGED <<toxav, now, reply, mixerVars,
                   cap_ran, cap_in, lockVars, audio_rx, mixer_lock, out, selected>>

AudioGating(captureOk, playbackOk) ==
    /\ pc = "iterate"
    /\ LET active == has_active_call(calls)
       IN  IF active /\ ~audio_active
           THEN /\ audio_capture' = captureOk
                /\ cap' = IF captureOk
                          THEN Some(AudioCapture_start(HostInputConfig))
                          ELSE None
                /\ audio_playback' = playbackOk
                /\ play' = IF playbackOk
                           THEN Some(AudioPlayback_start(HostOutputConfig))
                           ELSE None
                /\ audio_active' = TRUE
                /\ sources' = sources
                /\ hist' = hist
           ELSE IF ~active /\ audio_active
           THEN /\ audio_capture' = FALSE
                /\ cap' = None
                /\ audio_playback' = FALSE
                /\ play' = None
                /\ sources' = clear(sources)
                /\ hist' = EmptyMap
                /\ audio_active' = FALSE
           ELSE UNCHANGED <<audioVars, cap, play, sources, hist>>
    /\ pc' = "sleep"
    /\ events' = << >>
    /\ sent' = << >>
    /\ removed' = None
    /\ UNCHANGED <<toxav, calls, now, reply, mixerVars,
                   cap_ran, cap_in, lockVars, audio_rx, mixer_lock, out, selected>>

\* active_friends without the mute filter.
active_friends_ignores_mute(cs) ==
    { p \in DOMAIN cs : cs[p].state = "InProgress" }

\* The friends the captured audio is sent to (tox_manager.rs 1733-1741).
active_friends(cs) ==
    { p \in DOMAIN cs : cs[p].state = "InProgress" /\ ~cs[p].is_audio_muted }

\* The Vecs that hold every member of S once: the orders in which the
\* HashMap's values can be listed.
Orders(S) ==
    { q \in [1..Cardinality(S) -> S] :
        \A i \in 1..Cardinality(S), j \in 1..Cardinality(S) :
            q[i] = q[j] => i = j }

\* The end of the tick: every frame waiting on audio_rx is received and
\* handed to av.audio_send_frame for each active friend (tox_manager.rs
\* 1727-1765; nothing is received without a ToxAV instance), then
\* std::thread::sleep(interval) and the next iteration of the loop.
Sleep ==
    /\ pc = "sleep"
    /\ now < MaxTime
    /\ IF toxav
       THEN /\ \E friends \in Orders(active_friends(calls)) :
                  sent' = [k \in 1..Len(audio_rx.frames) |->
                             [pcm |-> audio_rx.frames[k], friends |-> friends]]
            /\ audio_rx' = [audio_rx EXCEPT !.frames = << >>]
       ELSE /\ sent' = << >>
            /\ audio_rx' = audio_rx
    /\ now' = now + 1
    /\ pc' = "cmds"
    /\ events' = << >>
    /\ removed' = None
    /\ UNCHANGED <<toxav, calls, sources, audioVars, reply, mixerVars, hist,
                   cap, cap_ran, cap_in, lockVars, play, mixer_lock, out, selected>>

(***************************************************************************)
(* One step of the tox thread, with the peers P, the transport's call-state *)
(* flags F and the with-video choices V as inputs.                          *)
(***************************************************************************)
Step(P, F, V) ==
    \/ \E p \in P, v \in V, ok \in BOOLEAN : AvCall(p, v, ok)
    \/ \E p \in P, v \in V, ok \in BOOLEAN : AvAnswer(p, v, ok)
    \/ \E p \in P, ok \in BOOLEAN : AvHangup(p, ok)
    \/ \E p \in P : AvGetCallState(p)
    \/ CommandsDrained
    \/ \E p \in P, a \in BOOLEAN, v \in V : on_call(p, a, v)
    \/ \E p \in P, f \in F : on_call_state(p, f)
    \/ \E p \in P, pcm \in RxFrames : on_audio_receive_frame(p, pcm)
    \/ \E c \in BOOLEAN, pb \in BOOLEAN : AudioGating(c, pb)
    \/ Sleep

\* Audio-only calls: the flags of a transport that carries no video.
AudioFlags ==
    { f \in CallStateFlags : /\ ~f.sending_video /\ ~f.accepting_video
                             /\ f.sending_audio = f.accepting_audio }

\* The control loop with all peers and audio-only calls.
Next == Step(Peers, AudioFlags, {FALSE})

Spec == Init /\ [][Next]_vars

\* One peer, with every combination of call-state flags and video choices.
NextCalls == Step({0}, CallStateFlags, BOOLEAN)

SpecCalls == Init /\ [][NextCalls]_vars

(***************************************************************************)
(* The capture stream's input callback, run by the audio subsystem on its   *)
(* own thread while the stream exists.  data is the block of samples of an  *)
(* i16 device, results what resampler.process returns for the successive    *)
(* complete frames, samples_per_frame stands for TOXAV_SAMPLES_PER_FRAME.   *)
(* No callback is modelled once MaxQueued frames wait on the queue, or     *)
(* when it would find more than MaxBlocks complete frames in its buffer.    *)
(***************************************************************************)
CaptureCallback(data, results, samples_per_frame) ==
    /\ cap # None
    /\ Len(audio_rx.frames) < MaxQueued
    /\ (Len(cap[1].sample_buffer) + Len(data))
          \div (samples_per_frame * cap[1].input_channels) <= MaxBlocks
    /\ LET r == input_callback(cap[1], audio_rx, data, results,
                               samples_per_frame)
       IN  /\ cap' = Some(r.stream)
           /\ audio_rx' = r.rx
    /\ cap_ran' = Some(cap[1].running)
    /\ cap_in' = Some([data |-> data, results |-> results])
    /\ UNCHANGED <<loopVars, sources, hist, removed, mixerVars, lockVars,
                   play, mixer_lock, out, selected>>

(***************************************************************************)
(* The AudioCapture handle used on its own: start, stop and drop by the     *)
(* owner, callbacks from the device, frames taken off the queue by the      *)
(* receiver.                                                                *)
(***************************************************************************)
CaptureStart(config) ==
    /\ cap = None
    /\ cap' = Some(AudioCapture_start(config))
    /\ UNCHANGED <<loopVars, sources, hist, removed, mixerVars,
                   cap_ran, cap_in, lockVars,
                   audio_rx, play, mixer_lock, out, selected>>

CaptureStop ==
    /\ cap # None
    /\ cap' = Some(AudioCapture_stop(cap[1]))
    /\ UNCHANGED <<loopVars, sources, hist, removed, mixerVars,
                   cap_ran, cap_in, lockVars,
                   audio_rx, play, mixer_lock, out, selected>>

\* Drop for AudioCapture: stop(), then the cpal stream is dropped with the
\* handle and its callback is never called again.
CaptureDrop ==
    /\ cap # None
    /\ cap' = None
    /\ UNCHANGED <<loopVars, sources, hist, removed, mixerVars,
                   cap_ran, cap_in, lockVars,
                   audio_rx, play, mixer_lock, out, selected>>

\* audio_rx.try_recv() returning a frame.
FrameRecv ==
    /\ audio_rx.frames # << >>
    /\ audio_rx' = [audio_rx EXCEPT !.frames = Tail(@)]
    /\ UNCHANGED <<loopVars, sources, hist, removed, mixerVars, cap,
                   cap_ran, cap_in, lockVars,
                   play, mixer_lock, out, selected>>

\* The receiving half of the channel is dropped by its owner: frames not
\* yet received are gone and every later send fails.
ReceiverDrop ==
    /\ audio_rx.open
    /\ audio_rx' = [open |-> FALSE, frames |-> << >>]
    /\ UNCHANGED <<loopVars, sources, hist, removed, mixerVars, cap,
                   cap_ran, cap_in, lockVars, play, mixer_lock, out, selected>>

\* Device configurations of the capture specification: mono and stereo, at
\* the ToxAV rate and at a rate that needs the resampler.
CaptureConfigs ==
    { StreamConfig(c, r) : c \in {1, 2}, r \in {TOXAV_SAMPLE_RATE, 44100} }

\* Blocks of samples the device delivers in the capture specification.
CaptureData == { << 1000 >>, << -32768, 1000, 1000 >> }

\* What resampler.process may return for one block: an error, or a channel
\* of samples whose length the resampler decides.
ResampleResults ==
    {Err} \cup { Ok([i \in 1..n |-> F32_ONE \div 2]) :
                   n \in (FrameSamples - 1)..(FrameSamples + 1) }

NextCapture ==
    \/ \E config \in CaptureConfigs : CaptureStart(config)
    \/ \E data \in CaptureData,
          results \in [1..MaxBlocks -> ResampleResults] :
            CaptureCallback(data, results, FrameSamples)
    \/ CaptureStop
    \/ CaptureDrop
    \/ FrameRecv
    \/ ReceiverDrop

SpecCapture == Init /\ [][NextCapture]_vars

(***************************************************************************)
(* The device-selection commands, run by the frontend at any time.          *)
(***************************************************************************)
set_audio_input_device(device_id) ==
    /\ selected' = [selected EXCEPT !.mic = parse_u32(device_id)]
    /\ UNCHANGED <<loopVars, sources, hist, removed, mixerVars, cap,
                   cap_ran, cap_in, lockVars,
                   audio_rx, play, mixer_lock, out>>

set_audio_output_device(device_id) ==
    /\ selected' = [selected EXCEPT !.speaker = parse_u32(device_id)]
    /\ UNCHANGED <<loopVars, sources, hist, removed, mixerVars, cap,
                   cap_ran, cap_in, lockVars,
                   audio_rx, play, mixer_lock, out>>

\* Device ids the frontend passes in the device specification.
DeviceIds == { << "1" >>, << "+", "0", "2" >>, << "x" >> }

\* The control loop for one peer with audio-only calls, and the
\* device-selection commands.
NextDevices ==
    \/ Step({0}, AudioFlags, {FALSE})
    \/ \E device_id \in DeviceIds : set_audio_input_device(device_id)
    \/ \E device_id \in DeviceIds : set_audio_output_device(device_id)

SpecDevices == Init /\ [][NextDevices]_vars

\* The blocks of samples the device delivers in the sending specification:
\* one frame's worth.
SendData == { [i \in 1..FrameSamples |-> IF i = 1 THEN 1000 ELSE -32768] }

\* The call-state flags of the sending specification: audio-only calls in
\* both directions, active, finished or in error.
SendFlags ==
    { f \in AudioFlags : f.sending_audio /\ ~(f.error /\ f.finished) }

\* The control loop with the capture callback and the mute commands; no
\* audio is received.
NextSend ==
    \/ \E p \in Peers, ok \in BOOLEAN : AvCall(p, FALSE, ok)
    \/ \E p \in Peers, ok \in BOOLEAN : AvAnswer(p, FALSE, ok)
    \/ \E p \in Peers, ok \in BOOLEAN : AvHangup(p, ok)
    \/ \E p \in Peers, ok \in BOOLEAN : AvMuteAudio(p, ok)
    \/ \E p \in Peers, ok \in BOOLEAN : AvUnmuteAudio(p, ok)
    \/ CommandsDrained
    \/ \E p \in Peers : on_call(p, TRUE, FALSE)
    \/ \E p \in Peers, f \in SendFlags : on_call_state(p, f)
    \/ \E c \in BOOLEAN : AudioGating(c, TRUE)
    \/ \E data \in SendData : CaptureCallback(data, << >>, FrameSamples)
    \/ Sleep

SpecSend == Init /\ [][NextSend]_vars

\* One peer with every combination of flags and video choices, and the
\* mute commands.
NextMute ==
    \/ NextCalls
    \/ \E ok \in BOOLEAN : AvMuteAudio(0, ok)
    \/ \E ok \in BOOLEAN : AvUnmuteAudio(0, ok)

SpecMute == Init /\ [][NextMute]_vars

(***************************************************************************)
(* The AudioMixer's public API (mixer.rs 96-203), called under the mixer's  *)
(* mutex: push_frame by the receive callback, get_mixed_output by the       *)
(* playback callback, the others by any holder of the Arc<Mutex<_>>.        *)
(* capacity is the sources' ring-buffer capacity and budget bounds the      *)
(* samples pushed to one source since it was created.                       *)
(***************************************************************************)
MixerPush(friend_number, pcm, capacity, budget) ==
    /\ (IF friend_number \in DOMAIN hist
        THEN Len(hist[friend_number].pushed) ELSE 0) + Len(pcm) <= budget
    /\ sources' = push_frame(sources, friend_number, pcm, capacity)
    /\ hist' = HistPush(hist, sources, friend_number, pcm, capacity)
    /\ mixed' = None
    /\ level' = None
    /\ UNCHANGED <<loopVars, removed, ioVars, muted>>

MixerPull(sample_count) ==
    /\ LET r == get_mixed_output(sources, muted, sample_count)
       IN  /\ mixed' = Some(r.output)
           /\ sources' = Pack(r.sources)
    /\ hist' = Pack(HistPull(hist, sources, muted, sample_count))
    /\ level' = None
    /\ UNCHANGED <<loopVars, removed, ioVars, muted>>

MixerLevel(friend_number) ==
    /\ LET r == get_level(sources, friend_number)
       IN  /\ level' = Some([friend_number |-> friend_number,
                             value |-> r.level])
           /\ sources' = r.sources
    /\ mixed' = None
    /\ UNCHANGED <<loopVars, removed, ioVars, muted, hist>>

MixerRemove(friend_number) ==
    /\ sources' = remove_source(sources, friend_number)
    /\ hist' = MapRemove(hist, friend_number)
    /\ removed' = Removed(removed, sources, friend_number)
    /\ mixed' = None
    /\ level' = None
    /\ UNCHANGED <<loopVars, ioVars, muted>>

MixerClear ==
    /\ sources' = clear(sources)
    /\ hist' = EmptyMap
    /\ removed' = None
    /\ mixed' = None
    /\ level' = None
    /\ UNCHANGED <<loopVars, ioVars, muted>>

MixerSetMuted(m) ==
    /\ muted' = set_muted(m)
    /\ mixed' = None
    /\ level' = None
    /\ UNCHANGED <<loopVars, removed, ioVars, sources, hist>>

\* Vec<i16> values of at most n samples drawn from V.
Frames(V, n) == UNION { [1..k -> V] : k \in 0..n }

\* The control loop is at rest with its ToxAV instance created; only the
\* mixer is exercised.
InitMixer == Init /\ toxav

\* Sample values of the ring specification.
RingSamples == {-32768, 1000}

\* One source, pushed past its capacity, with every call of the API.
NextRing ==
    \/ \E pcm \in Frames(RingSamples, MaxChunk) :
          MixerPush(0, pcm, MixCapacity, MixCapacity + MaxOverflow)
    \/ \E n \in 0..(MixCapacity + 1) : MixerPull(n)
    \/ MixerLevel(0)
    \/ MixerRemove(0)
    \/ MixerClear
    \/ \E m \in BOOLEAN : MixerSetMuted(m)

SpecRing == InitMixer /\ [][NextRing]_vars

\* Sample values of the mixing specification.
MixSamples == {-32768, -3, 1000, 3000}

\* Several sources mixed.
NextMixer ==
    \/ \E p \in Peers, pcm \in Frames(MixSamples, MaxChunk) :
          MixerPush(p, pcm, MixCapacity, MaxMixPushed)
    \/ \E n \in 0..MaxPull : MixerPull(n)
    \/ \E p \in Peers : MixerRemove(p)
    \/ MixerClear
    \/ \E m \in BOOLEAN : MixerSetMuted(m)

SpecMixer == InitMixer /\ [][NextMixer]_vars

(***************************************************************************)
(* The AudioPlayback handle and the mixer's mutex.  The output callback     *)
(* runs on the audio thread; the tox thread's on_audio_receive_frame takes  *)
(* the lock, pushes the frame and releases the lock in separate steps, so   *)
(* that a callback can come while the lock is held.                         *)
(***************************************************************************)
PlaybackStart(config) ==
    /\ play = None
    /\ play' = Some(AudioPlayback_start(config))
    /\ UNCHANGED <<loopVars, sources, hist, removed, mixerVars, cap,
                   cap_ran, cap_in, lockVars,
                   audio_rx, mixer_lock, out, selected>>

PlaybackStop ==
    /\ play # None
    /\ play' = Some(AudioPlayback_stop(play[1]))
    /\ UNCHANGED <<loopVars, sources, hist, removed, mixerVars, cap,
                   cap_ran, cap_in, lockVars,
                   audio_rx, mixer_lock, out, selected>>

\* Drop for AudioPlayback.
PlaybackDrop ==
    /\ play # None
    /\ play' = None
    /\ UNCHANGED <<loopVars, sources, hist, removed, mixerVars, cap,
                   cap_ran, cap_in, lockVars,
                   audio_rx, mixer_lock, out, selected>>

PlaybackCallback(data_len) ==
    /\ play # None
    /\ LET r == output_callback(play[1], mixer_lock = "none", sources, muted,
                                data_len)
       IN  /\ out' = Some([data |-> r.data,
                           lock_acquired |-> r.lock_acquired,
                           running |-> play[1].running])
           /\ sources' = Pack(r.sources)
           /\ mixed' = r.mixed
           /\ hist' = IF r.lock_acquired
                      THEN Pack(HistPull(hist, sources, muted,
                                         data_len \div play[1].output_channels))
                      ELSE hist
    /\ level' = None
    /\ UNCHANGED <<loopVars, removed, muted, cap, cap_ran, cap_in, lockVars,
                   audio_rx, play, mixer_lock, selected>>

\* self.mixer.lock() of on_audio_receive_frame returns the guard.
LoopLock ==
    /\ mixer_lock = "none"
    /\ mixer_lock' = "loop"
    /\ UNCHANGED <<loopVars, sources, hist, removed, mixerVars, cap,
                   cap_ran, cap_in, lockVars,
                   audio_rx, play, out, selected>>

\* mixer.push_frame(friend_number, pcm.to_vec()) under the guard.
LoopPush(friend_number, pcm) ==
    /\ mixer_lock = "loop"
    /\ MixerPush(friend_number, pcm, MixCapacity, MaxMixPushed)

\* The guard goes out of scope.
LoopUnlock ==
    /\ mixer_lock = "loop"
    /\ mixer_lock' = "none"
    /\ UNCHANGED <<loopVars, sources, hist, removed, mixerVars, cap,
                   cap_ran, cap_in, lockVars,
                   audio_rx, play, out, selected>>

\* Output configurations of the playback specification: mono and stereo.
PlaybackConfigs == { StreamConfig(c, TOXAV_SAMPLE_RATE) : c \in {1, 2} }

\* Sample values of the playback specification.
PlaybackSamples == {-32768, 1000}

NextPlayback ==
    \/ \E config \in PlaybackConfigs : PlaybackStart(config)
    \/ PlaybackStop
    \/ PlaybackDrop
    \/ \E data_len \in 1..MaxData : PlaybackCallback(data_len)
    \/ LoopLock
    \/ \E p \in Peers, pcm \in Frames(PlaybackSamples, MaxChunk) :
          LoopPush(p, pcm)
    \/ LoopUnlock

SpecPlayback == InitMixer /\ [][NextPlayback]_vars

(***************************************************************************)
(* The two std::sync::Mutex values, around the AvManager and around the     *)
(* AudioMixer, at the granularity of their lock and unlock.  The tox thread *)
(* runs one handler at a time; tox_at holds the handler, its arguments and  *)
(* the statements of it that touch a lock and are still to run.  The output *)
(* callback runs on the audio thread.  The events and replies of the        *)
(* handlers, which take no lock, are left to the control-loop               *)
(* specifications.                                                          *)
(***************************************************************************)
\* `if let Ok(mut mgr) = self.av_manager.lock() { ... }`: the guard is taken,
\* the registry is used and the guard is dropped at the end of the block.
RegistrySection == << "lock_registry", "registry", "unlock_registry" >>

\* `if let Ok(mut mixer) = self.mixer.lock() { ... }`
MixerSection == << "lock_mixer", "mixer", "unlock_mixer" >>

\* The flags of a transport callback that carries none.
NoState == [error |-> FALSE, finished |-> FALSE,
            sending_audio |-> FALSE, sending_video |-> FALSE,
            accepting_audio |-> FALSE, accepting_video |-> FALSE]

\* Handlers that keep the registry's guard until they return.
handler_steps_nested(op, state) ==
    IF op = "AvCall" THEN RegistrySection
    ELSE IF op = "AvHangup"
    THEN << "lock_registry", "registry" >> \o MixerSection
            \o << "unlock_registry" >>
    ELSE IF op = "on_call_state"
    THEN IF state.finished \/ state.error
         THEN << "lock_registry", "registry" >> \o MixerSection
                 \o << "unlock_registry" >>
         ELSE RegistrySection
    ELSE IF op = "on_audio_receive_frame" THEN MixerSection
    ELSE RegistrySection \o << "gate" >>

\* Handlers that push to the mixer without taking its lock.
handler_steps_push_unlocked(op, state) ==
    IF op = "AvCall" THEN RegistrySection
    ELSE IF op = "AvHangup" THEN RegistrySection \o MixerSection
    ELSE IF op = "on_call_state"
    THEN RegistrySection
            \o (IF state.finished \/ state.error THEN MixerSection
                ELSE << >>)
    ELSE IF op = "on_audio_receive_frame" THEN << "mixer" >>
    ELSE RegistrySection \o << "gate" >>

\* The statements of each handler that touch a lock, in program order.
\* The audio gating decides after its registry section ("gate") whether a
\* mixer section follows.
handler_steps(op, state) ==
    IF op = "AvCall" THEN RegistrySection
    ELSE IF op = "AvHangup" THEN RegistrySection \o MixerSection
    ELSE IF op = "on_call_state"
    THEN RegistrySection
            \o (IF state.finished \/ state.error THEN MixerSection
                ELSE << >>)
    ELSE IF op = "on_audio_receive_frame" THEN MixerSection
    ELSE RegistrySection \o << "gate" >>

\* The tox thread is at statement s of its handler.
ToxAt(s) == tox_at # None /\ Head(tox_at[1].todo) = s

\* The tox thread after the statement it is at.
ToxAdvance ==
    IF Len(tox_at[1].todo) = 1 THEN None
    ELSE Some([tox_at[1] EXCEPT !.todo = Tail(@)])

\* The tox thread enters a handler.
ToxBegin(op, friend_number, state, pcm) ==
    /\ tox_at = None
    /\ (IF friend_number \in DOMAIN hist
        THEN Len(hist[friend_number].pushed) ELSE 0) + Len(pcm)
            <= MaxRxSamples
    /\ tox_at' = Some([op |-> op, friend_number |-> friend_number,
                       state |-> state, pcm |-> pcm,
                       has_active_call |-> FALSE,
                       todo |-> handler_steps(op, state)])
    /\ UNCHANGED <<loopVars, sources, hist, removed, mixerVars, cap,
                   cap_ran, cap_in, audio_rx, play, mixer_lock, out,
                   selected, av_manager_lock>>

\* av_manager.lock() returns the guard.
ToxLockRegistry ==
    /\ ToxAt("lock_registry")
    /\ av_manager_lock = "none"
    /\ av_manager_lock' = "loop"
    /\ tox_at' = ToxAdvance
    /\ UNCHANGED <<loopVars, sources, hist, removed, mixerVars, cap,
                   cap_ran, cap_in, audio_rx, play, mixer_lock, out,
                   selected>>

\* The body of the block that holds the registry's guard.
ToxRegistry ==
    /\ ToxAt("registry")
    /\ LET t == tox_at[1]
       IN  /\ calls' =
                IF t.op = "AvCall"
                THEN start_call(calls, t.friend_number, FALSE)
                ELSE IF t.op = "AvHangup"
                THEN end_call(calls, t.friend_number)
                ELSE IF t.op = "on_call_state"
                THEN update_call_state(calls, t.friend_number, t.state, now)
                ELSE calls
           /\ tox_at' = Some([t EXCEPT
                  !.has_active_call = IF t.op = "gating"
                                      THEN has_active_call(calls) ELSE @,
                  !.todo = Tail(@)])
    /\ UNCHANGED <<toxav, audioVars, pc, now, events, reply, sent, sources,
                   hist, removed, mixerVars, cap, cap_ran, cap_in, audio_rx,
                   play, mixer_lock, out, selected, av_manager_lock>>

\* The registry's guard goes out of scope.
ToxUnlockRegistry ==
    /\ ToxAt("unlock_registry")
    /\ av_manager_lock' = "none"
    /\ tox_at' = ToxAdvance
    /\ UNCHANGED <<loopVars, sources, hist, removed, mixerVars, cap,
                   cap_ran, cap_in, audio_rx, play, mixer_lock, out,
                   selected>>

\* The two `if` statements of the audio gating, up to the mixer's lock.
\* Dropping the playback handle returns once no callback is in progress.
ToxGate(captureOk, playbackOk) ==
    /\ ToxAt("gate")
    /\ LET active == tox_at[1].has_active_call
       IN  IF active /\ ~audio_active
           THEN /\ audio_capture' = captureOk
                /\ cap' = IF captureOk
                          THEN Some(AudioCapture_start(HostInputConfig))
                          ELSE None
                /\ audio_playback' = playbackOk
                /\ play' = IF playbackOk
                           THEN Some(AudioPlayback_start(HostOutputConfig))
                           ELSE None
                /\ audio_active' = TRUE
                /\ tox_at' = None
           ELSE IF ~active /\ audio_active
           THEN /\ mixer_lock # "playback"
                /\ audio_capture' = FALSE
                /\ cap' = None
                /\ audio_playback' = FALSE
                /\ play' = None
                /\ audio_active' = audio_active
                /\ tox_at' = Some([tox_at[1] EXCEPT !.todo = MixerSection])
           ELSE /\ UNCHANGED <<audioVars, cap, play>>
                /\ tox_at' = None
    /\ UNCHANGED <<toxav, calls, pc, now, events, reply, sent, sources, hist,
                   removed, mixerVars, cap_ran, cap_in, audio_rx, mixer_lock,
                   out, selected, av_manager_lock>>

\* mixer.lock() returns the guard.
ToxLockMixer ==
    /\ ToxAt("lock_mixer")
    /\ mixer_lock = "none"
    /\ mixer_lock' = "loop"
    /\ tox_at' = ToxAdvance
    /\ UNCHANGED <<loopVars, sources, hist, removed, mixerVars, cap,
                   cap_ran, cap_in, audio_rx, play, out, selected,
                   av_manager_lock>>

\* The body of the block that holds the mixer's guard: push_frame in
\* on_audio_receive_frame, clear in the audio gating, remove_source in the
\* other handlers.
ToxMixer ==
    /\ ToxAt("mixer")
    /\ LET t == tox_at[1]
       IN  IF t.op = "on_audio_receive_frame"
           THEN /\ sources' = push_frame(sources, t.friend_number, t.pcm,
                                         MixCapacity)
                /\ hist' = HistPush(hist, sources, t.friend_number, t.pcm,
                                    MixCapacity)
                /\ removed' = None
           ELSE IF t.op = "gating"
           THEN /\ sources' = clear(sources)
                /\ hist' = EmptyMap
                /\ removed' = None
           ELSE /\ sources' = remove_source(sources, t.friend_number)
                /\ hist' = MapRemove(hist, t.friend_number)
                /\ removed' = Removed(None, sources, t.friend_number)
    /\ tox_at' = ToxAdvance
    /\ UNCHANGED <<loopVars, mixerVars, cap, cap_ran, cap_in, audio_rx, play,
                   mixer_lock, out, selected, av_manager_lock>>

\* The mixer's guard goes out of scope; the audio gating then clears
\* audio_active.
ToxUnlockMixer ==
    /\ ToxAt("unlock_mixer")
    /\ mixer_lock' = "none"
    /\ audio_active' = IF tox_at[1].op = "gating" THEN FALSE
                       ELSE audio_active
    /\ tox_at' = ToxAdvance
    /\ UNCHANGED <<toxav, calls, audio_capture, audio_playback, pc, now,
                   events, reply, sent, sources, hist, removed, mixerVars,
                   cap, cap_ran, cap_in, audio_rx, play, out, selected,
                   av_manager_lock>>

\* The output callback finds the running flag set and mixer.try_lock()
\* returns the guard.
PlaybackTryLock ==
    /\ play # None
    /\ play[1].running
    /\ mixer_lock = "none"
    /\ mixer_lock' = "playback"
    /\ UNCHANGED <<loopVars, sources, hist, removed, mixerVars, cap,
                   cap_ran, cap_in, audio_rx, play, out, selected, lockVars>>

\* The rest of the output callback that holds the guard: get_mixed_output,
\* the device buffer written, the guard dropped.
PlaybackPull(data_len) ==
    /\ play # None
    /\ mixer_lock = "playback"
    /\ LET r == output_callback(play[1], TRUE, sources, muted, data_len)
       IN  /\ out' = Some([data |-> r.data,
                           lock_acquired |-> r.lock_acquired,
                           running |-> play[1].running])
           /\ sources' = Pack(r.sources)
           /\ mixed' = r.mixed
           /\ hist' = Pack(HistPull(hist, sources, muted,
                                    data_len \div play[1].output_channels))
    /\ level' = None
    /\ mixer_lock' = "none"
    /\ UNCHANGED <<loopVars, removed, muted, cap, cap_ran, cap_in, audio_rx,
                   play, selected, lockVars>>

\* The output callback whose mixer.try_lock() fails.
PlaybackBusy(data_len) ==
    /\ mixer_lock = "loop"
    /\ PlaybackCallback(data_len)

\* Call states the transport reports in the lock specification.
LockStates ==
    { [NoState EXCEPT !.sending_audio = TRUE, !.accepting_audio = TRUE],
      [NoState EXCEPT !.finished = TRUE] }

\* Frames the transport delivers in the lock specification.
LockFrames == { << 1000 >> }

NextLocks ==
    \/ \E p \in Peers : ToxBegin("AvCall", p, NoState, << >>)
    \/ \E p \in Peers : ToxBegin("AvHangup", p, NoState, << >>)
    \/ \E p \in Peers, s \in LockStates :
          ToxBegin("on_call_state", p, s, << >>)
    \/ \E p \in Peers, pcm \in LockFrames :
          ToxBegin("on_audio_receive_frame", p, NoState, pcm)
    \/ ToxBegin("gating", 0, NoState, << >>)
    \/ ToxLockRegistry
    \/ ToxRegistry
    \/ ToxUnlockRegistry
    \/ \E pb \in BOOLEAN : ToxGate(TRUE, pb)
    \/ ToxLockMixer
    \/ ToxMixer
    \/ ToxUnlockMixer
    \/ PlaybackTryLock
    \/ \E data_len \in 1..MaxData : PlaybackPull(data_len)
    \/ \E data_len \in 1..MaxData : PlaybackBusy(data_len)

SpecLocks == InitMixer /\ [][NextLocks]_vars

\* The largest number of sources whose samples cannot overflow an i32
\* accumulator: n * (-32768) >= i32::MIN exactly when n <= 65536.
MaxExactSources == (I32_MAX \div 32768) + 1

\* Numbers of sources of the wide specification.
WideCounts == {1, 2, 3, MaxExactSources, MaxExactSources + 1}

\* Sample values of the wide specification.
WideSamples == {-32768, 1000, 32767}

\* A mixer to which the peers 1..n have each pushed a one-sample frame:
\* << u >> from peer 1 and << v >> from every other peer.  With more than
\* three peers every frame is << -32768 >>.  No history is kept here.
InitWide ==
    /\ toxav = TRUE
    /\ calls = EmptyMap
    /\ audio_active = FALSE
    /\ audio_capture = FALSE
    /\ audio_playback = FALSE
    /\ pc = "cmds"
    /\ now = 0
    /\ events = << >>
    /\ reply = None
    /\ muted = FALSE
    /\ mixed = None
    /\ level = None
    /\ removed = None
    /\ cap = None
    /\ audio_rx = Channel_new
    /\ play = None
    /\ mixer_lock = "none"
    /\ out = None
    /\ sent = << >>
    /\ cap_ran = None
    /\ cap_in = None
    /\ selected = [mic |-> None, speaker |-> None]
    /\ av_manager_lock = "none"
    /\ tox_at = None
    /\ \E n \in WideCounts, u \in WideSamples, v \in WideSamples :
          LET pcm(p) == IF p = 1 THEN << u >> ELSE << v >>
          IN  /\ n > 3 => (u = -32768 /\ v = -32768)
              /\ sources = Pack([p \in 1..n |->
                           push_samples(AudioSource_new, pcm(p), MixCapacity)])
              /\ hist = EmptyMap

\* Some source holds a sample.
SomeBuffered(srcs) == ~(\A p \in DOMAIN srcs : srcs[p].buffer = << >>)

\* Many sources mixed: pulls while samples are buffered.
NextWide ==
    \/ \E n \in 1..MaxPull : SomeBuffered(sources) /\ MixerPull(n)
    \/ \E m \in BOOLEAN : MixerSetMuted(m)

SpecWide == InitWide /\ [][NextWide]_vars

(***************************************************************************)
(* Properties of the call state machine and of the audio gating.            *)
(***************************************************************************)
Terminal == {"Ended", "Error"}

\* Some record of the registry cs is InProgress.
SomeInProgress(cs) == \E p \in DOMAIN cs : cs[p].state = "InProgress"

\* The step is the audio gating of a tick (from av.iterate() to the sleep).
GatingStep == pc = "iterate" /\ pc' = "sleep"

\* The gating of this step starts audio, and a start fails.
FailedStart ==
    /\ GatingStep
    /\ SomeInProgress(calls)
    /\ ~audio_active
    /\ (~audio_capture' \/ ~audio_playback')

\* Every source other than p's is the same before and after the step.
OtherSourcesKept(p) ==
    \A q \in (DOMAIN sources) \ {p} :
        q \in DOMAIN sources' /\ sources'[q] = sources[q]

C2_NoTerminalRecordRead ==
    (reply # None /\ reply[1].cmd = "AvGetCallState" /\ reply[1].state # None)
        => reply[1].state[1].state \notin Terminal

\* C3: a call-state callback for a peer whose record is Ended or Error
\* leaves the record's state as it is.
C3_TerminalStatesStay ==
    [][ \A p \in Peers, f \in CallStateFlags :
          (/\ p \in DOMAIN calls
           /\ calls[p].state \in Terminal
           /\ on_call_state(p, f))
          => (p \in DOMAIN calls' /\ calls'[p].state = calls[p].state)
      ]_vars

\* C4: a call-state callback on an existing record sets the state to Error
\* when error is set, else to Ended when finished is set, else to InProgress,
\* stamping the start time when the record was not InProgress already.
C4_UpdatePriority ==
    [][ \A p \in Peers, f \in CallStateFlags :
          (p \in DOMAIN calls /\ on_call_state(p, f)) =>
            /\ p \in DOMAIN calls'
            /\ IF f.error
               THEN /\ calls'[p].state = "Error"
                    /\ calls'[p].started_at = calls[p].started_at
               ELSE IF f.finished
               THEN /\ calls'[p].state = "Ended"
                    /\ calls'[p].started_at = calls[p].started_at
               ELSE IF calls[p].state # "InProgress"
               THEN /\ calls'[p].state = "InProgress"
                    /\ calls'[p].started_at = << now >>
               ELSE /\ calls'[p].state = "InProgress"
                    /\ calls'[p].started_at = calls[p].started_at
      ]_vars

\* C4 witness: a call-state callback with error set has just moved a record
\* to Error.
C4_Witness ==
    /\ Len(events) = 2
    /\ events[1].type = "CallStateChange"
    /\ events[1].state = "error"
    /\ events[1].friend_number \in DOMAIN calls
    /\ calls[events[1].friend_number].state = "Error"

\* C5: after an AvHangup command for a peer the registry has no record of
\* that peer, whether or not the transport accepted the hangup.
C5_HangupAlwaysRemoves ==
    [][ \A p \in Peers, ok \in BOOLEAN :
          AvHangup(p, ok) => p \notin DOMAIN calls'
      ]_vars

C7_FailedStartKeepsCalls ==
    [][ FailedStart => (calls' = calls /\ SomeInProgress(calls')) ]_vars

\* C7 witness: a tick has ended with a failed start and an InProgress record.
C7_Witness ==
    /\ pc = "sleep"
    /\ audio_active
    /\ ~audio_capture
    /\ SomeInProgress(calls)

\* C8: a tick whose audio start fails emits an event to the frontend.
C8_FailedStartEmitsEvent ==
    [][ FailedStart => events' # << >> ]_vars

\* C9: a tick that sees an InProgress record while capture or playback is
\* not running starts them: when both starts would succeed, both run after
\* the tick.
C9_StartRetried ==
    [][ (/\ AudioGating(TRUE, TRUE)
         /\ SomeInProgress(calls)
         /\ (~audio_capture \/ ~audio_playback))
        => (audio_capture' /\ audio_playback')
      ]_vars

\* The step is a call-state callback with the error flag for peer p.
ErrorCallback(p) ==
    /\ pc = "iterate" /\ pc' = "iterate"
    /\ Len(events') > 0
    /\ events'[1].type = "CallStateChange"
    /\ events'[1].state = "error"
    /\ events'[1].friend_number = p

\* C10: a call-state callback with the error flag changes only that peer's
\* record (to Error), leaves the other peers' sources and the audio streams
\* alone, and a tick that sees another record InProgress while audio is
\* active keeps capture and playback as they are.
C10_ErrorIsPerPeer ==
    [][ /\ \A p \in Peers : ErrorCallback(p) =>
              /\ DOMAIN calls' = DOMAIN calls
              /\ \A q \in (DOMAIN calls) \ {p} : calls'[q] = calls[q]
              /\ p \in DOMAIN calls => calls'[p].state = "Error"
              /\ OtherSourcesKept(p)
              /\ UNCHANGED audioVars
        /\ (GatingStep /\ audio_active /\ SomeInProgress(calls)) =>
              UNCHANGED audioVars
      ]_vars

\* C10 witness: one peer's call has just failed while another peer's call is
\* InProgress and capture and playback are running.
C10_Witness ==
    /\ pc = "iterate"
    /\ Len(events) = 2
    /\ events[1].type = "CallStateChange"
    /\ events[1].state = "error"
    /\ events[1].friend_number \in DOMAIN calls
    /\ calls[events[1].friend_number].state = "Error"
    /\ \E q \in (DOMAIN calls) \ {events[1].friend_number} :
          calls[q].state = "InProgress"
    /\ audio_active /\ audio_capture /\ audio_playback

\* C11: a call command the transport accepts leaves a record for the peer
\* in state RingingOutgoing with audio enabled, video enabled equal to
\* with_video, audio not muted and no start time.
C11_StartCallRecord ==
    [][ \A p \in Peers, v \in BOOLEAN :
          (toxav /\ AvCall(p, v, TRUE)) =>
            /\ p \in DOMAIN calls'
            /\ calls'[p].friend_number = p
            /\ calls'[p].state = "RingingOutgoing"
            /\ calls'[p].has_audio
            /\ calls'[p].has_video = v
            /\ ~calls'[p].is_audio_muted
            /\ calls'[p].started_at = << >>
      ]_vars

\* C11 witness: a call with video has just been placed to a peer whose record
\* is RingingOutgoing.
C11_Witness ==
    /\ reply # << >>
    /\ reply[1].cmd = "AvCall"
    /\ reply[1].ok
    /\ reply[1].friend_number \in DOMAIN calls
    /\ calls[reply[1].friend_number].state = "RingingOutgoing"
    /\ calls[reply[1].friend_number].has_video

\* C12: an incoming-call callback leaves a record for the peer in state
\* RingingIncoming whose has_audio / has_video are the callback's flags and
\* whose start time is unset.
C12_IncomingCallRecord ==
    [][ \A p \in Peers, a \in BOOLEAN, v \in BOOLEAN :
          on_call(p, a, v) =>
            /\ p \in DOMAIN calls'
            /\ calls'[p].friend_number = p
            /\ calls'[p].state = "RingingIncoming"
            /\ calls'[p].has_audio = a
            /\ calls'[p].has_video = v
            /\ calls'[p].started_at = << >>
      ]_vars

\* C12 witness: an incoming call without audio has just been recorded.
C12_Witness ==
    /\ Len(events) = 1
    /\ events[1].type = "IncomingCall"
    /\ ~events[1].audio_enabled
    /\ events[1].friend_number \in DOMAIN calls
    /\ calls[events[1].friend_number].state = "RingingIncoming"
    /\ ~calls[events[1].friend_number].has_audio

(***************************************************************************)
(* Properties of the audio mixer.                                           *)
(***************************************************************************)
\* The step is a call of get_mixed_output (it is the only one that leaves a
\* returned Vec in mixed).
PullStep == mixed' # None

\* Some source holds a sample other than 0.
SomeSoundBuffered ==
    \E p \in DOMAIN sources :
        \E i \in 1..Len(sources[p].buffer) : sources[p].buffer[i] # 0

\* C13: a pull on a mixer without sources, or on a muted mixer, returns
\* exactly sampleCount zeros, for every sampleCount including 0.
C13_SilentPull ==
    [][ \A n \in 0..MaxPull :
          (MixerPull(n) /\ (muted \/ DOMAIN sources = {})) =>
            /\ mixed' # None
            /\ Len(mixed'[1]) = n
            /\ \A i \in 1..n : mixed'[1][i] = 0 ]_vars

\* A muted mixer with sound buffered has just returned MaxPull zeros.
C13_Witness ==
    /\ muted
    /\ SomeSoundBuffered
    /\ mixed # None
    /\ Len(mixed[1]) = MaxPull
    /\ \A i \in 1..MaxPull : mixed[1][i] = 0

\* C14: every peer's buffer holds at most the capacity after any sequence of
\* push, pull, level, remove and clear.
C14_BufferWithinCapacity ==
    /\ MAX_BUFFER_SAMPLES = 9600
    /\ \A p \in DOMAIN sources : Len(sources[p].buffer) <= MixCapacity

\* A source is full after more samples than the capacity were pushed to it.
C14_Witness ==
    \E p \in DOMAIN sources :
        /\ Len(hist[p].pushed) > MixCapacity
        /\ hist[p].pulled = << >>
        /\ Len(sources[p].buffer) = MixCapacity

\* The last n elements of the sequence q (n <= Len(q)).
LastOf(q, n) == SubSeq(q, Len(q) - n + 1, Len(q))

\* C15: after pushes, in any chunking and with no pull in between, that
\* total more than the capacity, the buffer's length is exactly the capacity
\* and its contents are the most recently pushed samples, in push order.
C15_KeepsMostRecent ==
    \A p \in DOMAIN sources :
        (hist[p].pulled = << >> /\ Len(hist[p].pushed) > MixCapacity) =>
            /\ Len(sources[p].buffer) = MixCapacity
            /\ sources[p].buffer = LastOf(hist[p].pushed, MixCapacity)

\* MaxOverflow samples were evicted and the samples kept differ from the
\* samples that were pushed first.
C15_Witness ==
    \E p \in DOMAIN sources :
        /\ hist[p].pulled = << >>
        /\ Len(hist[p].pushed) = MixCapacity + MaxOverflow
        /\ sources[p].buffer # SubSeq(hist[p].pushed, 1, MixCapacity)
        /\ sources[p].buffer[1] # sources[p].buffer[MixCapacity]

\* The samples the call returned and the number of samples it asked for.
Pulled == mixed'[1]

\* The i-th sample a source contributes to a pull: its i-th oldest buffered
\* sample, or silence when it has fewer.
Contribution(src, i) == IF i <= Len(src.buffer) THEN src.buffer[i] ELSE 0

\* Every source holds at least n samples and its n oldest all equal S.
AllBuffer(n, S) ==
    /\ DOMAIN sources # {}
    /\ \A p \in DOMAIN sources :
          /\ Len(sources[p].buffer) >= n
          /\ \A i \in 1..n : sources[p].buffer[i] = S

\* C16: when every one of N >= 1 peers has at least sampleCount samples
\* buffered, all equal to the same value S, an unmuted pull of sampleCount
\* returns sampleCount samples each equal to S.
C16_UniformMix ==
    [][ (PullStep /\ ~muted) =>
          \A S \in WideSamples :
              AllBuffer(Len(Pulled), S) =>
                  \A i \in 1..Len(Pulled) : Pulled[i] = S ]_vars

\* An integer too wide for 32 bits, kept as q * 65536 + r with r in 0..65535.
Wide(c) == [q |-> c \div 65536, r |-> c % 65536]

WideAdd(a, b) ==
    [q |-> a.q + b.q + ((a.r + b.r) \div 65536), r |-> (a.r + b.r) % 65536]

\* The exact sum of the i-th contributions of the sources with keys lo..hi.
RECURSIVE ExactSum(_, _, _)
ExactSum(i, lo, hi) ==
    IF lo = hi
    THEN IF lo \in DOMAIN sources
         THEN Wide(Contribution(sources[lo], i)) ELSE Wide(0)
    ELSE LET mid == lo + (hi - lo) \div 2
         IN  WideAdd(ExactSum(i, lo, mid), ExactSum(i, mid + 1, hi))

\* The wide integer fits an i32, and its value then.
FitsI32(a) == -32768 <= a.q /\ a.q <= 32767

Narrow(a) == a.q * 65536 + a.r

\* C17: for any mix of int16 inputs and any number of peers, every sample
\* a pull returns lies in [-32768, 32767] and is no larger in magnitude than
\* the largest sample contributed at its position; the 32-bit accumulation
\* does not overflow and the clamp changes nothing, so the sample is the
\* exact sum divided by the number of peers.
C17_NoOverflowNoClip ==
    [][ (PullStep /\ ~muted /\ DOMAIN sources # {}) =>
          LET count == Cardinality(DOMAIN sources)
              last == MaxKey(DOMAIN sources, 0, (I32_MAX \div 2) + 1)
          IN  \A i \in 1..Len(Pulled) :
                  LET sum == ExactSum(i, 0, last)
                  IN  /\ -32768 <= Pulled[i] /\ Pulled[i] <= 32767
                      /\ \E p \in DOMAIN sources :
                            Abs(Pulled[i]) <= Abs(Contribution(sources[p], i))
                      /\ FitsI32(sum)
                      /\ Pulled[i] = TruncDiv(Narrow(sum), count) ]_vars

\* The sum of the i-th contributions of the sources with keys in S.
RECURSIVE ContributionSum(_, _)
ContributionSum(S, i) ==
    IF S = {} THEN 0
    ELSE LET p == CHOOSE q \in S : TRUE
         IN  Contribution(sources[p], i) + ContributionSum(S \ {p}, i)

\* C18: an unmuted pull of n returns n samples whatever is buffered (it
\* never waits): every registered peer contributes its up-to-n oldest
\* samples followed by zeros, those samples leave its buffer, and
\* output[i] is the sum of the i-th contributions divided, by integer
\* division, by the number of registered peers.
C18_PullNeverWaits ==
    [][ \A n \in 0..MaxPull :
          (MixerPull(n) /\ ~muted /\ DOMAIN sources # {}) =>
            /\ Len(Pulled) = n
            /\ \A i \in 1..n :
                  Pulled[i] = TruncDiv(ContributionSum(DOMAIN sources, i),
                                       Cardinality(DOMAIN sources))
            /\ \A p \in DOMAIN sources :
                  LET buffer == sources[p].buffer
                  IN  sources'[p].buffer =
                        SubSeq(buffer, Min(n, Len(buffer)) + 1, Len(buffer)) ]_vars

\* One peer's 1000s and the other's 3000s have just been mixed into 2000s.
C18_Witness ==
    /\ ~muted
    /\ mixed = Some(<< 2000, 2000 >>)
    /\ \E a \in DOMAIN hist, b \in DOMAIN hist :
          /\ hist[a].pulled = << 1000, 1000 >>
          /\ hist[b].pulled = << 3000, 3000 >>

\* What the pulls drained from each source, followed by what it still
\* buffers, is what was pushed to it, unless the capacity evicted samples.
HistoryAgrees ==
    \A p \in DOMAIN sources :
        /\ Len(hist[p].pulled) + Len(sources[p].buffer) + hist[p].evicted
              = Len(hist[p].pushed)
        /\ hist[p].evicted = 0 =>
              hist[p].pulled \o sources[p].buffer = hist[p].pushed

\* C19: with a single registered peer an unmuted pull returns that peer's
\* samples unchanged and in push order, and no sample twice: a pull of n
\* returns the n oldest samples (zeros once they run out) and shortens the
\* buffer by min(n, length), so that what successive pulls returned,
\* followed by what is still buffered, is what was pushed (as long as the
\* capacity evicted nothing).
C19_SinglePeerFifo ==
    [][ /\ HistoryAgrees'
        /\ (PullStep /\ ~muted /\ Cardinality(DOMAIN sources) = 1) =>
            \A p \in DOMAIN sources :
                LET buffer == sources[p].buffer
                    k == Min(Len(Pulled), Len(buffer))
                IN  /\ Pulled = SubSeq(buffer, 1, k)
                                  \o [i \in 1..(Len(Pulled) - k) |-> 0]
                    /\ sources'[p].buffer = SubSeq(buffer, k + 1, Len(buffer))
                    /\ Len(sources'[p].buffer) = Len(buffer) - k ]_vars

\* A second pull has just returned the samples that follow those of the
\* first, and more are still buffered.
C19_Witness ==
    /\ ~muted
    /\ mixed # None
    /\ \E p \in DOMAIN sources :
          /\ hist[p].evicted = 0
          /\ Len(mixed[1]) >= 1
          /\ Len(hist[p].pulled) > Len(mixed[1])
          /\ mixed[1] = LastOf(hist[p].pulled, Len(mixed[1]))
          /\ hist[p].pulled[1] # hist[p].pulled[Len(hist[p].pulled)]
          /\ sources[p].buffer # << >>

\* The step is a call of get_level (the only one that leaves a value in
\* level).
LevelStep == level' # None

\* C20: level(peer) returns 0 for a peer without a source or without
\* samples since the last level call, and a value within [0, 1] otherwise;
\* it zeroes the accumulator and the counter, so that a second level(peer)
\* right after it returns 0; a pull changes neither.
C20_LevelResets ==
    [][ /\ LevelStep =>
            LET p == level'[1].friend_number
                v == level'[1].value
            IN  /\ v.den > 0 /\ 0 <= v.num /\ v.num <= v.den
                /\ p \notin DOMAIN sources => v.num = 0
                /\ p \in DOMAIN sources =>
                      /\ sources[p].level_sample_count = 0 => v.num = 0
                      /\ sources'[p].level_accumulator = 0
                      /\ sources'[p].level_sample_count = 0
                /\ (level # None /\ level[1].friend_number = p) => v.num = 0
        /\ PullStep =>
            \A p \in DOMAIN sources :
                /\ sources'[p].level_accumulator = sources[p].level_accumulator
                /\ sources'[p].level_sample_count = sources[p].level_sample_count
      ]_vars

\* A level strictly between 0 and 1 has just been read, which emptied the
\* accumulator of a source that still buffers the samples.
C20_Witness ==
    /\ level # None
    /\ 0 < level[1].value.num
    /\ level[1].value.num < level[1].value.den
    /\ level[1].friend_number \in DOMAIN sources
    /\ sources[level[1].friend_number].level_sample_count = 0
    /\ sources[level[1].friend_number].buffer # << >>

\* The sum of |q[i]| over the sequence q.
RECURSIVE SumAbs(_)
SumAbs(q) == IF q = << >> THEN 0 ELSE Abs(Head(q)) + SumAbs(Tail(q))

\* C21: remove(peer) deletes the peer's source, so that a later pull has no
\* contribution from it and divides by the number of the peers pushed and
\* not removed since; a push that re-adds the peer under the same id starts
\* from an empty buffer and zeroed loudness counters, which then hold only
\* the samples of that push.
C21_RemoveIsFresh ==
    [][ /\ \A p \in Peers :
              /\ MixerRemove(p) => p \notin DOMAIN sources'
              /\ (p \notin DOMAIN hist /\ p \in DOMAIN hist') =>
                    /\ p \in DOMAIN sources'
                    /\ sources'[p].buffer = hist'[p].pushed
                    /\ sources'[p].level_sample_count = Len(hist'[p].pushed)
                    /\ sources'[p].level_accumulator = SumAbs(hist'[p].pushed)
        /\ (PullStep /\ ~muted) =>
              \A i \in 1..Len(Pulled) :
                  Pulled[i] = IF DOMAIN hist = {} THEN 0
                              ELSE TruncDiv(ContributionSum(DOMAIN hist, i),
                                            Cardinality(DOMAIN hist)) ]_vars

\* A peer whose source was removed has been re-added by pushes, and a pull
\* has just mixed the samples pushed since with those of another peer.
C21_Witness ==
    /\ ~muted
    /\ mixed # None
    /\ Len(mixed[1]) = MaxPull
    /\ \E p \in DOMAIN sources, q \in DOMAIN sources :
          /\ p # q
          /\ removed = Some(p)
          /\ Len(hist[p].pushed) = MaxMixPushed
          /\ hist[p].pulled = hist[p].pushed
          /\ hist[q].pulled # << >>

\* The step is a push_frame for the peer p: the samples pushed to p's source
\* since it was created have changed (a push of no samples changes nothing
\* but to create the source).
PushStep(p) ==
    /\ p \in DOMAIN hist'
    /\ p \in DOMAIN hist => hist'[p].pushed # hist[p].pushed

\* The samples the step pushed to p's source.
JustPushed(p) ==
    LET before == IF p \in DOMAIN hist THEN Len(hist[p].pushed) ELSE 0
    IN  SubSeq(hist'[p].pushed, before + 1, Len(hist'[p].pushed))

\* C29: a pull on a muted mixer changes no buffer and no loudness counter;
\* a push on a muted mixer still appends its samples, with the oldest
\* evicted beyond the capacity, and an unmuted pull then returns the oldest
\* buffered samples.
C29_MutedPullKeepsBuffers ==
    [][ /\ (PullStep /\ muted) => sources' = sources
        /\ \A p \in DOMAIN sources :
              (muted /\ PushStep(p)) =>
                  LET all == sources[p].buffer \o JustPushed(p)
                  IN  sources'[p].buffer =
                          LastOf(all, Min(Len(all), MixCapacity))
        /\ (PullStep /\ ~muted) =>
              \A p \in DOMAIN sources :
                  LET k == Min(Len(Pulled), Len(sources[p].buffer))
                  IN  SubSeq(Pulled, 1, k) = SubSeq(sources[p].buffer, 1, k)
      ]_vars

\* A muted mixer has just been pulled for more than the capacity while its
\* source, pushed past the capacity, is full and has never been drained.
C29_Witness ==
    /\ muted
    /\ mixed # None
    /\ Len(mixed[1]) = MixCapacity + 1
    /\ \E p \in DOMAIN sources :
          /\ Len(sources[p].buffer) = MixCapacity
          /\ hist[p].evicted = MaxOverflow
          /\ hist[p].pulled = << >>

\* C30: push(p, samples) changes only p's source: every other peer keeps
\* its source, with the same buffer, in the same order, and the same
\* loudness counters, and no other source appears.
C30_PushTouchesOnePeer ==
    [][ \A p \in Peers :
          PushStep(p) =>
              /\ DOMAIN sources' = DOMAIN sources \cup {p}
              /\ \A q \in DOMAIN sources \ {p} : sources'[q] = sources[q]
      ]_vars

\* Two peers hold MaxMixPushed samples each, all different from the other
\* peer's, exactly as they were pushed.
C30_Witness ==
    \E p \in DOMAIN sources, q \in DOMAIN sources :
        /\ p # q
        /\ Len(sources[p].buffer) = MaxMixPushed
        /\ Len(sources[q].buffer) = MaxMixPushed
        /\ sources[p].buffer = hist[p].pushed
        /\ sources[q].buffer = hist[q].pushed
        /\ \A i \in 1..MaxMixPushed, j \in 1..MaxMixPushed :
              sources[p].buffer[i] # sources[q].buffer[j]

----------------------------------------------------------------------------
\* The step ends a tick: the control loop has drained the capture queue.
SleepStep == pc = "sleep" /\ pc' = "cmds"

\* How many times friend p occurs in the list of friends a frame went to.
TimesSent(friends, p) ==
    Cardinality({ i \in 1..Len(friends) : friends[i] = p })

\* C25: with a ToxAV instance, the end of a tick hands every frame waiting
\* on the capture queue to the transport, in order, exactly once for each
\* peer whose record is InProgress and not audio-muted and for no other
\* peer, and leaves the queue empty.
C25_FrameSentOncePerActivePeer ==
    [][ (SleepStep /\ toxav) =>
          /\ Len(sent') = Len(audio_rx.frames)
          /\ \A k \in 1..Len(sent') :
                /\ sent'[k].pcm = audio_rx.frames[k]
                /\ \A p \in Peers :
                      TimesSent(sent'[k].friends, p) =
                        IF /\ p \in DOMAIN calls
                           /\ calls[p].state = "InProgress"
                           /\ ~calls[p].is_audio_muted
                        THEN 1 ELSE 0
          /\ audio_rx'.frames = << >>
      ]_vars

\* C25 witness: a tick has just sent a captured frame to one peer while
\* another peer's call is InProgress and audio-muted.
C25_Witness ==
    /\ pc = "cmds"
    /\ Len(sent) > 0
    /\ Len(sent[1].friends) = 1
    /\ \E q \in DOMAIN calls :
          /\ q # sent[1].friends[1]
          /\ calls[q].state = "InProgress"
          /\ calls[q].is_audio_muted

----------------------------------------------------------------------------
\* The step applied the transport's flags to the registry for peer p: a
\* CallStateChange event for p was emitted.
TransportUpdate(p) ==
    /\ Len(events') > 0
    /\ events'[1].type = "CallStateChange"
    /\ events'[1].friend_number = p

\* C27: every update from the transport on an existing record sets
\* has_audio to sending_audio \/ accepting_audio and has_video to
\* sending_video \/ accepting_video, whatever happens to the state, and
\* leaves both mute flags as they were.
C27_FlagsRefreshedMuteKept ==
    [][ \A p \in Peers :
          (TransportUpdate(p) /\ p \in DOMAIN calls) =>
            /\ p \in DOMAIN calls'
            /\ calls'[p].has_audio =
                  (events'[1].sending_audio \/ events'[1].accepting_audio)
            /\ calls'[p].has_video =
                  (events'[1].sending_video \/ events'[1].accepting_video)
            /\ calls'[p].is_audio_muted = calls[p].is_audio_muted
            /\ calls'[p].is_video_muted = calls[p].is_video_muted
      ]_vars

\* C27 witness: a call-state callback without audio flags has just reached
\* an audio-muted record that was InProgress since an earlier tick.
C27_Witness ==
    /\ pc = "iterate"
    /\ Len(events) = 1
    /\ events[1].type = "CallStateChange"
    /\ ~events[1].sending_audio /\ ~events[1].accepting_audio
    /\ events[1].sending_video
    /\ 0 \in DOMAIN calls
    /\ calls[0].state = "InProgress"
    /\ calls[0].started_at # None
    /\ calls[0].started_at[1] < now
    /\ calls[0].is_audio_muted
    /\ ~calls[0].has_audio
    /\ calls[0].has_video

----------------------------------------------------------------------------
\* C28: after every step a ringing record has no start timestamp and an
\* InProgress record has one; a record that stays InProgress keeps its
\* timestamp; and a timestamp is written only by a step that moves the
\* record into InProgress.
C28_StartedAtOnlyInProgress ==
    [][ /\ \A p \in DOMAIN calls' :
              /\ calls'[p].state \in {"RingingOutgoing", "RingingIncoming"}
                    => calls'[p].started_at = None
              /\ calls'[p].state = "InProgress"
                    => calls'[p].started_at # None
              /\ ( /\ calls'[p].started_at # None
                   /\ (p \in DOMAIN calls
                         => calls'[p].started_at # calls[p].started_at) )
                    => /\ calls'[p].state = "InProgress"
                       /\ (p \in DOMAIN calls
                             => calls[p].state # "InProgress")
        /\ \A p \in DOMAIN calls \cap DOMAIN calls' :
              (calls[p].state = "InProgress" /\ calls'[p].state = "InProgress")
                => calls'[p].started_at = calls[p].started_at
      ]_vars

\* C28 witness: a call-state callback with active flags has just reached a
\* record that was InProgress since an earlier tick, and the timestamp is
\* still the earlier one.
C28_Witness ==
    /\ pc = "iterate"
    /\ Len(events) = 1
    /\ events[1].type = "CallStateChange"
    /\ events[1].state = "in_progress"
    /\ 0 \in DOMAIN calls
    /\ calls[0].state = "InProgress"
    /\ calls[0].started_at # None
    /\ calls[0].started_at[1] < now

----------------------------------------------------------------------------
\* C23: while the stream exists with its running flag cleared, no step adds
\* a frame to the queue (the frames waiting can only be taken off its
\* front) or changes the state held by the callback (the accumulation
\* buffer included); the stream goes away only when the handle is dropped.
C23_StoppedCallbackDoesNothing ==
    [][ (cap # None /\ ~cap[1].running) =>
          /\ cap' \in {cap, None}
          /\ \E k \in 0..Len(audio_rx.frames) :
                audio_rx'.frames =
                    SubSeq(audio_rx.frames, k + 1, Len(audio_rx.frames))
      ]_vars

\* C23 witness: the latest callback found the running flag cleared, with
\* samples waiting in the accumulation buffer and a frame on the queue.
C23_Witness ==
    /\ cap # None
    /\ ~cap[1].running
    /\ cap_ran = Some(FALSE)
    /\ cap[1].sample_buffer # << >>
    /\ audio_rx.frames # << >>

----------------------------------------------------------------------------
----------------------------------------------------------------------------
\* The sound buffered in the mixer: some source holds a non-zero sample.
SoundBuffered ==
    \E p \in DOMAIN sources :
        \E i \in 1..Len(sources[p].buffer) : sources[p].buffer[i] # 0

\* C22: a playback callback that comes while the control loop holds the
\* mixer's lock completes in that same step, with the lock still held by
\* the loop: it writes nothing but silence over the whole device buffer,
\* reports the lock as not acquired and leaves every source as it was.
C22_PlaybackNeverWaits ==
    [][ (mixer_lock = "loop" /\ out' # out) =>
          /\ mixer_lock' = "loop"
          /\ out' # None
          /\ ~out'[1].lock_acquired
          /\ out'[1].data = Silence(Len(out'[1].data))
          /\ sources' = sources
          /\ hist' = hist
      ]_vars

\* C22 witness: the latest callback did not get the lock, the control loop
\* holds it, and the mixer has sound buffered that the callback did not
\* take.
C22_Witness ==
    /\ play # None
    /\ play[1].running
    /\ mixer_lock = "loop"
    /\ out # None
    /\ ~out[1].lock_acquired
    /\ Len(out[1].data) = MaxData
    /\ SoundBuffered

----------------------------------------------------------------------------
\* C26: a device-selection command leaves the capture and playback streams
\* as they are, and a step that starts capture or playback opens the
\* device selected at that moment.
C26_SelectionUsedAtNextStart ==
    [][ /\ (selected' # selected) => (cap' = cap /\ play' = play)
        /\ (cap = None /\ cap' # None) => cap'[1].device_id = selected.mic
        /\ (play = None /\ play' # None)
              => play'[1].device_id = selected.speaker
      ]_vars

----------------------------------------------------------------------------
\* C32: a playback callback that runs while the stream's running flag is
\* cleared writes nothing but silence over the whole device buffer, does
\* not take the mixer (lock_acquired is false) and leaves every source as
\* it was, whether or not the mixer's lock is free.
C32_StoppedPlaybackIsSilent ==
    [][ (play # None /\ ~play[1].running /\ out' # out) =>
          /\ out' # None
          /\ ~out'[1].running
          /\ ~out'[1].lock_acquired
          /\ out'[1].data = Silence(Len(out'[1].data))
          /\ sources' = sources
          /\ hist' = hist
      ]_vars

\* C32 witness: the latest callback read the running flag as cleared while
\* the mixer's lock was free and the mixer had sound buffered.
C32_Witness ==
    /\ play # None
    /\ ~play[1].running
    /\ mixer_lock = "none"
    /\ out # None
    /\ ~out[1].running
    /\ Len(out[1].data) = MaxData
    /\ SoundBuffered

----------------------------------------------------------------------------
\* The step is an input callback that found the running flag set: the
\* stream exists before and after and its accumulation buffer changed.
CaptureRan ==
    /\ cap # None
    /\ cap[1].running
    /\ cap' # None
    /\ cap'[1].sample_buffer # cap[1].sample_buffer

\* The accumulation buffer once the callback of this step has added its
\* samples, before any frame is cut from it.
Accumulated ==
    cap[1].sample_buffer \o
        [i \in 1..Len(cap_in'[1].data) |-> from_sample(cap_in'[1].data[i])]

\* Samples in one complete block of the stream.
BlockLen == FrameSamples * cap[1].input_channels

\* Complete blocks the callback of this step finds.
Blocks == Len(Accumulated) \div BlockLen

\* Accumulated without its first k blocks.
AfterBlocks(k) == SubSeq(Accumulated, k * BlockLen + 1, Len(Accumulated))

\* The frames made of the blocks, among the first n, that the resampler
\* accepted.
ResampledFrames(results, n) ==
    LET accepted == SelectSeq(SubSeq(results, 1, n), LAMBDA r : r.ok)
    IN  [k \in 1..Len(accepted) |->
            [i \in 1..Len(accepted[k].output) |->
                to_pcm(accepted[k].output[i])]]

\* C33: a callback of a resampling stream whose receiver exists cuts every
\* complete block from its buffer, whichever of them the resampler
\* rejects: the rejected blocks add nothing to the queue, every accepted
\* one adds its frame, in order, and nothing else of the stream changes
\* (the running flag stays set, the stream exists).
C33_ResamplerErrorDropsOneBlock ==
    [][ (CaptureRan /\ cap[1].resampler /\ audio_rx.open) =>
          /\ cap'[1] = [cap[1] EXCEPT !.sample_buffer = AfterBlocks(Blocks)]
          /\ audio_rx'.open
          /\ audio_rx'.frames =
                audio_rx.frames \o
                    ResampledFrames(cap_in'[1].results, Blocks)
      ]_vars

\* C33 witness: the latest callback of a mono resampling stream took three
\* samples and left its buffer empty, so it found two blocks; the
\* resampler rejected the first and accepted the second, whose frame is
\* the last one on the queue.
C33_Witness ==
    /\ cap # None
    /\ cap[1].running
    /\ cap[1].resampler
    /\ cap[1].input_channels = 1
    /\ cap[1].sample_buffer = << >>
    /\ cap_ran = Some(TRUE)
    /\ cap_in # None
    /\ Len(cap_in[1].data) = 3
    /\ ~cap_in[1].results[1].ok
    /\ cap_in[1].results[2].ok
    /\ audio_rx.frames # << >>
    /\ audio_rx.frames[Len(audio_rx.frames)] =
          [i \in 1..Len(cap_in[1].results[2].output) |->
              to_pcm(cap_in[1].results[2].output[i])]

----------------------------------------------------------------------------
\* Blocks the callback of this step cuts from its buffer when the receiver
\* is gone: up to and including the first one it tries to send.
BlocksUntilSend ==
    LET tried == { i \in 1..Blocks :
                     ~cap[1].resampler \/ cap_in'[1].results[i].ok }
    IN  IF tried = {} THEN Blocks
        ELSE CHOOSE i \in tried : \A j \in tried : i <= j

\* C34: a callback whose send fails because the receiver is gone returns
\* at that point: the block it tried to send is gone from the buffer, the
\* samples behind it stay, the running flag stays set and the stream
\* exists; every later callback does the same again.
C34_SendFailureEndsInvocationOnly ==
    [][ (CaptureRan /\ ~audio_rx.open) =>
          /\ cap'[1] = [cap[1] EXCEPT
                          !.sample_buffer = AfterBlocks(BlocksUntilSend)]
          /\ audio_rx' = audio_rx
      ]_vars

\* C34 witness: the receiver is gone and a callback has returned at the
\* failed send, leaving a complete block in the buffer of the running
\* stream.
C34_Witness ==
    /\ ~audio_rx.open
    /\ cap # None
    /\ cap[1].running
    /\ cap_ran = Some(TRUE)
    /\ cap_in # None
    /\ Len(cap[1].sample_buffer) >= FrameSamples * cap[1].input_channels

----------------------------------------------------------------------------
\* The gating of this step stops audio: audio was active and no record is
\* InProgress.
StopStep == GatingStep /\ audio_active /\ ~audio_active'

\* C35: the gating step that stops audio leaves the mixer without any
\* source, and nothing is added before the tick ends.
C35_StopClearsMixer ==
    [][ /\ StopStep => (DOMAIN sources' = {} /\ ~SomeInProgress(calls))
        /\ (SleepStep /\ ~audio_active) => sources' = sources
      ]_vars

\* C35 witness: the gating of a tick is done, audio is stopped after a
\* call that had been InProgress since an earlier tick ended, and the
\* mixer is empty.
C35_Witness ==
    /\ pc = "sleep"
    /\ ~audio_active
    /\ cap = None /\ play = None
    /\ DOMAIN sources = {}
    /\ \E p \in DOMAIN calls :
          /\ calls[p].state = "Ended"
          /\ calls[p].started_at # None
          /\ calls[p].started_at[1] < now

----------------------------------------------------------------------------
\* C36: at every tick boundary each peer that has a source in the mixer
\* has a record in the registry.
C36_SourcesHaveRecords ==
    pc = "cmds" => DOMAIN sources \subseteq DOMAIN calls

----------------------------------------------------------------------------
\* C38: an update from the transport for a peer without a record leaves the
\* registry exactly as it was, for any flags.
C38_UpdateWithoutRecord ==
    [][ \A p \in Peers :
          (TransportUpdate(p) /\ p \notin DOMAIN calls) => calls' = calls
      ]_vars

\* C38 witness: a call-state callback has just come for a peer that has no
\* record while another peer has one.
C38_Witness ==
    /\ pc = "iterate"
    /\ Len(events) > 0
    /\ events[1].type = "CallStateChange"
    /\ events[1].friend_number \notin DOMAIN calls
    /\ DOMAIN calls # {}

----------------------------------------------------------------------------
\* The fresh record of a call placed to p.
FreshOutgoing(p, with_video) ==
    [friend_number |-> p, state |-> "RingingOutgoing", has_audio |-> TRUE,
     has_video |-> with_video, is_audio_muted |-> FALSE,
     is_video_muted |-> ~with_video, started_at |-> None]

\* The fresh record of a call coming in from p.
FreshIncoming(p, audio_enabled, video_enabled) ==
    [friend_number |-> p, state |-> "RingingIncoming",
     has_audio |-> audio_enabled, has_video |-> video_enabled,
     is_audio_muted |-> FALSE, is_video_muted |-> ~video_enabled,
     started_at |-> None]

\* C39: a call placed to, or coming in from, a peer that already has a
\* record replaces that record by a fresh ringing one (no start time,
\* audio not muted) whatever its state was, and the registry keeps the
\* same peers.
C39_NewCallReplacesRecord ==
    [][ \A p \in DOMAIN calls :
          /\ \A v \in BOOLEAN :
                (toxav /\ AvCall(p, v, TRUE)) =>
                    calls' = [calls EXCEPT ![p] = FreshOutgoing(p, v)]
          /\ \A a \in BOOLEAN, v \in BOOLEAN :
                on_call(p, a, v) =>
                    calls' = [calls EXCEPT ![p] = FreshIncoming(p, a, v)]
      ]_vars

\* C39 witness: an incoming-call callback has just left the only peer's
\* record RingingIncoming without a start time while audio is active,
\* that is, while that record was InProgress at the last gating.
C39_Witness ==
    /\ pc = "iterate"
    /\ Len(events) = 1
    /\ events[1].type = "IncomingCall"
    /\ audio_active
    /\ DOMAIN calls = {events[1].friend_number}
    /\ events[1].friend_number \in DOMAIN calls
    /\ calls[events[1].friend_number].state = "RingingIncoming"
    /\ calls[events[1].friend_number].started_at = None

----------------------------------------------------------------------------
\* C40: an answer the transport accepts moves a RingingIncoming record to
\* InProgress with the current time as its start, in the command's own
\* step; an answer or a call the transport rejects leaves the registry as
\* it was and replies with an error.
C40_AnswerMovesToInProgress ==
    [][ \A p \in Peers, v \in BOOLEAN :
          /\ ( /\ toxav /\ AvAnswer(p, v, TRUE)
               /\ p \in DOMAIN calls
               /\ calls[p].state = "RingingIncoming" ) =>
                  /\ calls' = [calls EXCEPT
                                 ![p].state = "InProgress",
                                 ![p].started_at = Some(now),
                                 ![p].has_audio = TRUE,
                                 ![p].has_video = v]
                  /\ reply'[1].ok
                  /\ pc' = "cmds"
          /\ (AvAnswer(p, v, FALSE) \/ AvCall(p, v, FALSE)) =>
                  /\ calls' = calls
                  /\ ~reply'[1].ok
      ]_vars

\* C40 witness: an answer has just been accepted and the peer's record is
\* InProgress, started at the current time, before any transport callback
\* of this tick.
C40_Witness ==
    /\ pc = "cmds"
    /\ reply # None
    /\ reply[1].cmd = "AvAnswer"
    /\ reply[1].ok
    /\ reply[1].friend_number \in DOMAIN calls
    /\ calls[reply[1].friend_number].state = "InProgress"
    /\ calls[reply[1].friend_number].started_at = Some(now)
    /\ Len(events) = 1
    /\ events[1].type = "CallStateChange"

\* The tox thread is stopped at a lock that another holder has.
ToxWaits ==
    \/ ToxAt("lock_registry") /\ av_manager_lock # "none"
    \/ ToxAt("lock_mixer") /\ mixer_lock # "none"

\* C37: no execution context holds the AvManager's lock and the mixer's
\* lock at the same time: the tox thread has dropped the registry's guard
\* before it asks for the mixer's, and the output callback never holds the
\* registry's lock.  No deadlock follows: the tox thread only ever waits for
\* the mixer's lock while the output callback holds it, the tox thread
\* holds no lock while it waits, and the output callback, which only tries
\* the lock, waits for nothing.
C37_LocksNeverNested ==
    /\ av_manager_lock \in {"none", "loop"}
    /\ mixer_lock \in {"none", "loop", "playback"}
    /\ ~(av_manager_lock = "loop" /\ mixer_lock = "loop")
    /\ ToxAt("lock_mixer") => av_manager_lock = "none"
    /\ ToxWaits => /\ ToxAt("lock_mixer")
                   /\ mixer_lock = "playback"
                   /\ av_manager_lock = "none"
                   /\ play # None

\* The tox thread, inside a hangup that has used and released the registry,
\* waits for the mixer's lock while the output callback holds it.
C37_Witness ==
    /\ ToxWaits
    /\ tox_at[1].op = "AvHangup"
    /\ mixer_lock = "playback"
    /\ tox_at[1].friend_number \notin DOMAIN calls

\* The tox thread is inside the block that holds the mixer's guard.
ToxInMixer == ToxAt("mixer") \/ ToxAt("unlock_mixer")

\* C31: a pull that obtains the lock sees a consistent snapshot of the
\* mixer.  While the output callback holds the lock the tox thread is not
\* inside a push, remove_source or clear, and nothing changes the sources
\* or the mute flag; the pull then mixes exactly the sources as they were
\* when it took the lock.  Every push adds its whole frame in one step taken
\* under the lock, so a pull finds a pushed frame entirely or not at all.
C31_PullSeesSnapshot ==
    [][ /\ mixer_lock = "playback" => ~ToxInMixer
        /\ (mixer_lock = "playback" /\ mixer_lock' = "playback")
              => (sources' = sources /\ muted' = muted)
        /\ (mixer_lock = "playback" /\ mixer_lock' # "playback")
              => /\ mixer_lock' = "none"
                 /\ out' # None
                 /\ out'[1].lock_acquired
                 /\ \E n \in 0..MaxData :
                       /\ out'[1].data =
                            write_output(
                                get_mixed_output(sources, muted, n).output,
                                Len(out'[1].data), play[1].output_channels)
                       /\ n = Len(out'[1].data) \div play[1].output_channels
                       /\ sources' =
                            Pack(get_mixed_output(sources, muted, n).sources)
        /\ (sources' # sources /\ mixer_lock # "playback")
              => /\ mixer_lock = "loop"
                 /\ ToxAt("mixer")
                 /\ tox_at[1].op = "on_audio_receive_frame"
                       => sources' = push_frame(sources,
                                         tox_at[1].friend_number,
                                         tox_at[1].pcm, MixCapacity)
      ]_vars

\* The output callback holds the lock over a mixer with a buffered source
\* while the tox thread waits to push a frame from another peer.
C31_Witness ==
    /\ mixer_lock = "playback"
    /\ ToxAt("lock_mixer")
    /\ tox_at[1].op = "on_audio_receive_frame"
    /\ tox_at[1].friend_number \notin DOMAIN sources
    /\ \E p \in DOMAIN sources : sources[p].buffer # << >>
====
